---- MODULE Spec2Model ----
(***************************************************************************)
(* Model of the Feishu channel plugin's message pipeline:                  *)
(*   - gateway.ts: the im.message.receive_v1 handler (dedup, expiry,       *)
(*     mention resolution, the setImmediate task with auto-acknowledge),   *)
(*   - channel.ts: gateway.startAccount's onMessage, forwardMentionToBot   *)
(*     and createGroupDeliver,                                             *)
(*   - bot-registry.ts: detectMentionedBots.                               *)
(* Time is in milliseconds, as returned by Date.now().                     *)
(***************************************************************************)
EXTENDS Integers, Sequences, FiniteSets, TLC

VARIABLES
    now,                    \* Date.now()
    ticks,                  \* number of clock advances so far
    processedMessages,      \* gateway.ts:17  accountId -> (messageId -> timestamp)
    botOpenIdCache,         \* gateway.ts:112 accountId -> open_id (or None)
    pendingAcknowledgements,\* gateway.ts:31  messageId -> [accountId, reactionId]
    calls,                  \* one record per handler invocation (verdict + task state)
    effects,                \* side effects issued so far, tagged with the invocation
    registry,               \* bot-registry.ts:16 the registered bots, in insertion order
    script,                 \* accountId -> the reply fragments its agent produces
    fphase,                 \* "idle", "running" or "done": the root group dispatch
    fstack,                 \* the nested dispatches, innermost last
    forwards,               \* edges dispatched by forwardMentionToBot, in order
    skips,                  \* edges forwardMentionToBot returned early for, in order
    fthrow,                 \* TRUE while an exception leaves the innermost deliver call
    rejected,               \* the deliver calls that ended with an exception, in order
    blockTextBuffer,        \* channel.ts:782 trimmed texts of the buffered blocks
    blockMediaBuffer,       \* channel.ts:783 media urls of the buffered blocks
    blockReplyToId,         \* channel.ts:784 reply anchor of the buffer (or None)
    flushTimer,             \* channel.ts:785 due time of the armed timer, 0 for null
    flushTimers,            \* due times of the setTimeout callbacks of the buffer not yet run or cleared
    bufferStartTime,        \* channel.ts:786 0 for null
    dmReplied,              \* channel.ts:746
    dtask,                  \* position of the dispatch and of its current deliver call
    tcalls,                 \* the rawDeliver calls started by timer callbacks, unfinished
    frags,                  \* the fragments handed to bufferedDeliver, with arrival times
    flushes,                \* the calls of flushBlockBuffer so far, in order
    sends,                  \* the outbound sends issued so far, in order
    opened,                 \* index of the fragment that set bufferStartTime, 0 if unset
    groupReplied,           \* channel.ts:343 `replied` of the root group dispatch's deliver function
    gtask,                  \* position of the current call of that deliver function
    api,                    \* position of the current sendTextWithReply/sendPostWithReply call
    attempts,               \* the calls of the client's send API so far, with their results
    ackTimers,              \* gateway.ts:606 the armed clean-up timers: [id, due, handle]
    botEntries,             \* bot-registry.ts:16 accountId -> [name, openId] of its entry
    msgCtxs,                \* the MsgContext objects built so far, in order
    ackAccounts,            \* the accounts whose autoAcknowledge is not false
    late                    \* how often the clock passed the due time of a pending flush timer

inboundVars == <<now, ticks, processedMessages, botOpenIdCache,
                 pendingAcknowledgements, calls, effects>>

forwardVars == <<registry, script, fphase, fstack, forwards, skips, fthrow, rejected>>

bufferVars == <<blockTextBuffer, blockMediaBuffer, blockReplyToId, flushTimer, flushTimers,
                bufferStartTime, dmReplied, dtask, tcalls, frags, flushes, sends, opened>>

groupVars == <<groupReplied, gtask>>

sendVars == <<api, attempts>>

ackVars == <<ackTimers>>

logVars == <<botEntries, msgCtxs, ackAccounts, late>>

vars == <<inboundVars, forwardVars, bufferVars, groupVars, sendVars, ackVars, logVars>>

None == "none"

----------------------------------------------------------------------------
(* Program constants                                                       *)

\* the group deliver function is not running
GroupIdle == [pc |-> "idle", queue |-> <<>>, targets |-> <<>>]

\* no send call is running
ApiIdle == [pc |-> "idle", queue |-> <<>>, stage |-> "none"]

\* a position of the direct-chat dispatch with no send in flight
Task(pc) == [pc |-> pc, held |-> <<>>, queue |-> <<>>, flush |-> 0]

MESSAGE_DEDUPE_TTL_MS == 60 * 1000
MESSAGE_EXPIRE_TTL_MS == 30 * 60 * 1000
DEDUPE_CLEANUP_SIZE == 100
MAX_FORWARD_DEPTH == 30
FLUSH_DELAY_MS == 2000
MAX_BUFFER_MS == 8000
ACK_CLEANUP_MS == 5 * 60 * 1000

(* Bounds of the model                                                     *)

MaxCalls == 2
MaxEvictCalls == 3
MaxTicks == 2
NumEvents == 2
StartTime == 2400000
MaxFragments == 2
MaxStack == 32
MaxThrows == 1
NumDeepBots == 32
MaxDeliveries == 3
MaxBlocks == 6
MaxWaits == 6
MaxSendCalls == 2
MaxAckCalls == 2
MaxLate == 1

Accounts == {"A", "B"}
EventIds == 1 .. NumEvents
FillerIds == 1001 .. (1000 + DEDUPE_CLEANUP_SIZE)

\* accountIds of bots; at the first start of an account the name of its app
\* is its accountId; no name is a prefix of another
BotNames ==
    << "A", "B", "C", "D", "E", "F", "G", "H", "I", "J", "K", "L",
       "M", "N", "O", "P", "Q", "R", "S", "T", "U", "V", "W", "X",
       "Y", "Z", "0", "1", "2", "3", "4", "5", "6", "7", "8", "9" >>

\* the registry after the accounts of the three-bot runs have started
ThreeBots == SubSeq(BotNames, 1, 3)

\* the entry syncBotInfo registers for a bot at its first start: name is
\* botInfo.app_name and openId botInfo.open_id
EntryOf(b) == [name |-> b, openId |-> "ou_" \o b]

\* the entries of the registry, by accountId
RegisteredAtStart == [b \in {registry[k] : k \in 1 .. Len(registry)} |-> EntryOf(b)]

\* the accountIds in the registry
Bots == {registry[k] : k \in 1 .. Len(registry)}

\* open_id of each account's bot, as returned by getBotInfo
OpenIdOf(a) == IF a = "A" THEN "ou_A" ELSE "ou_B"
OpenIds == {"ou_A", "ou_B"}

\* account.autoAcknowledge (undefined counts as enabled)
autoAcknowledge(a) == a \in ackAccounts

----------------------------------------------------------------------------
(* Payload fields of an inbound event                                      *)

\* message.create_time: absent, a non-numeric string, or a decimal string
CreateTimes ==
    {[kind |-> "missing"], [kind |-> "nan"]}
    \cup {[kind |-> "num", ms |-> t] :
            t \in {StartTime - 2400000, StartTime - MESSAGE_EXPIRE_TTL_MS, StartTime}}

\* message.mentions: ordered list of mentioned open_ids
MentionLists ==
    {<<>>} \cup {<<x>> : x \in OpenIds} \cup {<<x, y>> : x \in OpenIds, y \in OpenIds}

\* tokens of the parsed text of a text message
TextContents == {<<>>, <<"hi">>, <<"@_all">>, <<"@_all", "hi">>}

MessageTypes == {"text", "audio"}
ChatTypes == {"p2p", "group"}

Payloads ==
    [create_time : CreateTimes, chat_type : ChatTypes, mentions : MentionLists,
     content : TextContents, message_type : MessageTypes]

\* events of the dedup/expiry runs: direct text messages of every age, and a group message that mentions the bot of account B
DedupPayloads ==
    {p \in Payloads :
        /\ p.content = <<"hi">>
        /\ \/ p.chat_type = "p2p" /\ p.mentions = <<>> /\ p.message_type = "text"
              /\ p.create_time.kind = "num"
           \/ p.chat_type = "group" /\ p.mentions = <<"ou_B">> /\ p.message_type = "text"
              /\ p.create_time = [kind |-> "num", ms |-> StartTime]}

FreshDirectText ==
    [create_time |-> [kind |-> "num", ms |-> StartTime], chat_type |-> "p2p",
     mentions |-> <<>>, content |-> <<"hi">>, message_type |-> "text"]

\* events of the mention-resolution runs: fresh events with every mention field
ResolverPayloads ==
    {p \in Payloads : p.create_time = [kind |-> "num", ms |-> StartTime]}

----------------------------------------------------------------------------
(* gateway.ts: dedup and expiry                                            *)

EmptyCache == [m \in {} |-> 0]

\* variant: an entry is dropped as soon as its age reaches the TTL
cleanupDedupeCache_atTTL(cache, t) ==
    LET keep == {m \in DOMAIN cache : ~(t - cache[m] >= MESSAGE_DEDUPE_TTL_MS)}
    IN  [m \in keep |-> cache[m]]

\* variant: the pass removes nothing
cleanupDedupeCache_none(cache, t) == cache

\* cleanupDedupeCache: drop the entries recorded more than the TTL ago
cleanupDedupeCache(cache, t) ==
    LET keep == {m \in DOMAIN cache : ~(t - cache[m] > MESSAGE_DEDUPE_TTL_MS)}
    IN  [m \in keep |-> cache[m]]

\* variant: the check without the record
isDuplicateMessage_noRecord(cache, messageId, t) ==
    [dup |-> messageId \in DOMAIN cache, cache |-> cache]

\* isDuplicateMessage: result and the cache it leaves behind
isDuplicateMessage(cache, messageId, t) ==
    IF messageId \in DOMAIN cache
    THEN [dup |-> TRUE, cache |-> cache]
    ELSE LET added == [m \in (DOMAIN cache) \cup {messageId} |->
                          IF m = messageId THEN t ELSE cache[m]]
         IN  [dup |-> FALSE,
              cache |-> IF Cardinality(DOMAIN added) > DEDUPE_CLEANUP_SIZE
                        THEN cleanupDedupeCache(added, t)
                        ELSE added]

\* variant: the subtraction the other way round
isMessageExpired_flipped(createTimeMs, t) ==
    IF createTimeMs.kind = "missing" THEN FALSE
    ELSE IF createTimeMs.kind = "nan" THEN FALSE
    ELSE createTimeMs.ms - t > MESSAGE_EXPIRE_TTL_MS

\* isMessageExpired
isMessageExpired(createTimeMs, t) ==
    IF createTimeMs.kind = "missing" THEN FALSE
    ELSE IF createTimeMs.kind = "nan" THEN FALSE
    ELSE t - createTimeMs.ms > MESSAGE_EXPIRE_TTL_MS

----------------------------------------------------------------------------
(* gateway.ts: mention resolution of the im.message.receive_v1 handler     *)

Includes(tokens, tok) == \E i \in 1 .. Len(tokens) : tokens[i] = tok

\* contentText.includes("@_all"), contentText being parsed for text messages only
hasAtAll(p) ==
    IF p.message_type = "text" THEN Includes(p.content, "@_all") ELSE FALSE

\* variant: the mention list and @_all are tested in direct chats too
resolveMention_allChats(p, botOpenId) ==
    LET hasMentions == Len(p.mentions) > 0
        byList == hasMentions
        byAll  == ~byList /\ hasAtAll(p)
        wasMentioned == byList \/ byAll
        isMentionedThisBot ==
            \/ byList /\ botOpenId # None /\ p.mentions[1] = botOpenId
            \/ byAll
    IN  [skip |-> wasMentioned /\ ~isMentionedThisBot,
         wasMentioned |-> wasMentioned]

\* variant: any mentioned open_id may be this bot's
resolveMention_anyTarget(p, botOpenId) ==
    LET isGroupChat == p.chat_type # "p2p"
        hasMentions == Len(p.mentions) > 0
        byList == isGroupChat /\ hasMentions
        byAll  == ~byList /\ isGroupChat /\ hasAtAll(p)
        wasMentioned == byList \/ byAll
        isMentionedThisBot ==
            \/ byList /\ botOpenId # None
                      /\ \E k \in 1 .. Len(p.mentions) : p.mentions[k] = botOpenId
            \/ byAll
    IN  [skip |-> isGroupChat /\ wasMentioned /\ ~isMentionedThisBot,
         wasMentioned |-> wasMentioned]

\* variant: without the test that the bot's own open_id is known
resolveMention_unknownMatches(p, botOpenId) ==
    LET isGroupChat == p.chat_type # "p2p"
        hasMentions == Len(p.mentions) > 0
        byList == isGroupChat /\ hasMentions
        byAll  == ~byList /\ isGroupChat /\ hasAtAll(p)
        wasMentioned == byList \/ byAll
        isMentionedThisBot ==
            \/ byList /\ (botOpenId = None \/ p.mentions[1] = botOpenId)
            \/ byAll
    IN  [skip |-> isGroupChat /\ wasMentioned /\ ~isMentionedThisBot,
         wasMentioned |-> wasMentioned]

\* lines 199-234: [skip, wasMentioned] for this bot
resolveMention(p, botOpenId) ==
    LET isGroupChat == p.chat_type # "p2p"
        hasMentions == Len(p.mentions) > 0
        byList == isGroupChat /\ hasMentions
        byAll  == ~byList /\ isGroupChat /\ hasAtAll(p)
        wasMentioned == byList \/ byAll
        isMentionedThisBot ==
            \/ byList /\ botOpenId # None /\ p.mentions[1] = botOpenId
            \/ byAll
    IN  [skip |-> isGroupChat /\ wasMentioned /\ ~isMentionedThisBot,
         wasMentioned |-> wasMentioned]

\* variant: the expiry return placed after the task is scheduled
reachesSetImmediate_expiredToo(verdict) == verdict \in {"accepted", "expired"}

\* the handler reaches setImmediate (line 321) unless it returned early
reachesSetImmediate(verdict) == verdict = "accepted"

\* feishuMessage.text after the synchronous parse (text messages only)
parsedHasText(p) ==
    IF p.message_type = "text" THEN Len(p.content) > 0 ELSE FALSE

----------------------------------------------------------------------------
(* channel.ts: gateway.startAccount onMessage, entry checks                *)

\* variant: without the unmentioned-group return
onMessageSuppressed_textOnly(c) == ~c.hasText

\* TRUE when onMessage returns before resolving a route and dispatching
onMessageSuppressed(c) ==
    \/ ~c.hasText
    \/ c.chatType = "group" /\ ~c.wasMentioned

Effect(i, k) == [call |-> i, kind |-> k]

\* state of the task once onMessage has been entered and has run up to its
\* first await (lines 682-847): it returns at once, or resolveAgentRoute
\* throws (line 699) and onMessage rejects, or the dispatcher is called
EnterOnMessage(i, c, routeOk) ==
    IF onMessageSuppressed(c)
    THEN [pc |-> "done", eff |-> {}]
    ELSE IF ~routeOk
    THEN [pc |-> "rejected", eff |-> {}]
    ELSE [pc |-> "dispatching", eff |-> {Effect(i, "dispatch")}]

\* position after the per-type preparation: auto-acknowledge, then onMessage
AfterPrepare(i, c, routeOk) ==
    IF autoAcknowledge(c.acct)
    THEN [pc |-> "acking", eff |-> {Effect(i, "ack")}]
    ELSE EnterOnMessage(i, c, routeOk)

----------------------------------------------------------------------------
(* Inbound specification                                                   *)

FullCache == [m \in FillerIds |-> StartTime]

InitInbound ==
    /\ now = StartTime
    /\ ticks = 0
    /\ processedMessages = [a \in Accounts |-> EmptyCache]
    /\ botOpenIdCache = [a \in Accounts |-> OpenIdOf(a)]
    /\ pendingAcknowledgements = EmptyCache
    /\ calls = <<>>
    /\ effects = {}
    /\ registry = ThreeBots
    /\ script = [b \in Bots |-> <<>>]
    /\ fphase = "idle"
    /\ fstack = <<>>
    /\ forwards = <<>>
    /\ skips = <<>>
    /\ fthrow = FALSE
    /\ rejected = <<>>
    /\ blockTextBuffer = <<>>
    /\ blockMediaBuffer = <<>>
    /\ blockReplyToId = None
    /\ flushTimer = 0
    /\ flushTimers = {}
    /\ bufferStartTime = 0
    /\ dmReplied = FALSE
    /\ dtask = Task("idle")
    /\ tcalls = <<>>
    /\ frags = <<>>
    /\ flushes = <<>>
    /\ sends = <<>>
    /\ opened = 0
    /\ groupReplied = FALSE
    /\ gtask = GroupIdle
    /\ api = ApiIdle
    /\ attempts = <<>>
    /\ ackTimers = {}
    /\ botEntries = RegisteredAtStart
    /\ msgCtxs = <<>>
    /\ ackAccounts = {"A"}
    /\ late = 0

\* the clock advances by d milliseconds
Tick(d) ==
    /\ ticks < MaxTicks
    /\ now' = now + d
    /\ ticks' = ticks + 1
    /\ UNCHANGED <<processedMessages, botOpenIdCache, pendingAcknowledgements,
                   calls, effects, forwardVars, bufferVars,
                   groupVars, sendVars, ackVars, logVars>>

\* variant: one record shared by the accounts
cacheOf_shared(caches, accountId) == caches["A"]

\* processedMessages.get(accountId) (gateway.ts:66)
cacheOf(caches, accountId) == caches[accountId]

\* "im.message.receive_v1" handler, up to its return (lines 132-321, 621)
Receive(a, e, p) ==
    LET d == isDuplicateMessage(cacheOf(processedMessages, a), e, now)
        r == resolveMention(p, botOpenIdCache[a])
        verdict == IF d.dup THEN "duplicate"
                   ELSE IF isMessageExpired(p.create_time, now) THEN "expired"
                   ELSE IF r.skip THEN "not_me"
                   ELSE "accepted"
    IN  /\ processedMessages' = [processedMessages EXCEPT ![a] = d.cache]
        /\ calls' = Append(calls,
               [acct |-> a, id |-> e, at |-> now, payload |-> p, verdict |-> verdict,
                chatType |-> IF p.chat_type = "p2p" THEN "p2p" ELSE "group",
                wasMentioned |-> r.wasMentioned,
                messageType |-> p.message_type,
                hasText |-> parsedHasText(p),
                inflight |-> {i \in 1 .. Len(calls) :
                                 calls[i].pc \notin {"returned", "done", "rejected", "failed"}},
                pc |-> IF reachesSetImmediate(verdict) THEN "scheduled" ELSE "returned"])
        /\ UNCHANGED <<now, ticks, botOpenIdCache, pendingAcknowledgements, effects,
                       forwardVars, bufferVars,
                   groupVars, sendVars, ackVars, logVars>>

\* parsed.file_key of an audio message (gateway.ts:327-328): the content of
\* an audio message is the JSON object of the file, its tokens stand for the
\* file_key, and an object without file_key has none
hasFileKey(p) == Len(p.content) > 0

\* the setImmediate callback starts (line 321); an audio message is
\* transcribed only if it has a file_key (line 328)
TaskStart(i, routeOk) ==
    /\ calls[i].pc = "scheduled"
    /\ IF calls[i].messageType = "audio" /\ hasFileKey(calls[i].payload)
       THEN /\ calls' = [calls EXCEPT ![i].pc = "transcribing"]
            /\ UNCHANGED effects
       ELSE LET n == AfterPrepare(i, calls[i], routeOk)
            IN  /\ calls' = [calls EXCEPT ![i].pc = n.pc]
                /\ effects' = effects \cup n.eff
    /\ UNCHANGED <<now, ticks, processedMessages, botOpenIdCache,
                   pendingAcknowledgements, forwardVars, bufferVars,
                   groupVars, sendVars, ackVars, logVars>>

\* transcribeAudio resolves (lines 324-345): empty result or error returns
TaskTranscribed(i, ok, routeOk) ==
    /\ calls[i].pc = "transcribing"
    /\ IF ok
       THEN LET c == [calls[i] EXCEPT !.hasText = TRUE, !.messageType = "text"]
                n == AfterPrepare(i, c, routeOk)
            IN  /\ calls' = [calls EXCEPT ![i] = [c EXCEPT !.pc = n.pc]]
                /\ effects' = effects \cup n.eff
       ELSE /\ calls' = [calls EXCEPT ![i].pc = "done"]
            /\ UNCHANGED effects
    /\ UNCHANGED <<now, ticks, processedMessages, botOpenIdCache,
                   pendingAcknowledgements, forwardVars, bufferVars,
                   groupVars, sendVars, ackVars, logVars>>

\* variant: no clean-up timer is set
armTimer_none(timers, messageId, t, handle) == timers

\* the timers after setTimeout(..., 5 * 60 * 1000) for a message (line 606):
\* every call sets a timer of its own, which nothing clears; the handle
\* tells apart two timers set for one message id at one time
armTimer(timers, messageId, t, handle) ==
    timers \cup {[id |-> messageId, due |-> t + ACK_CLEANUP_MS, handle |-> handle]}

\* variant: onMessage is entered only after an acknowledgement that succeeded
entersOnMessage_okOnly(res) == res = "ok"

\* onMessage is awaited after the try/catch of the acknowledgement (line 614)
entersOnMessage(res) == TRUE

\* variant: the entry is written whatever addReaction returned
placesEntry_any(res) == res # "throw"

\* ackResult.ok && ackResult.reactionId (gateway.ts:600): the entry is
\* written and its timer set only for a result with a reaction id
placesEntry(res) == res = "ok"

\* addReaction resolves (lines 597-614), then onMessage is entered; the
\* effect "marked" records that the platform returned a reaction id
TaskAcked(i, res, routeOk) ==
    /\ calls[i].pc = "acking"
    /\ LET c == calls[i]
           n == IF entersOnMessage(res) THEN EnterOnMessage(i, c, routeOk)
                ELSE [pc |-> "failed", eff |-> {}]
       IN  /\ pendingAcknowledgements' =
                 IF placesEntry(res)
                 THEN [m \in (DOMAIN pendingAcknowledgements) \cup {c.id} |->
                         IF m = c.id THEN c.acct ELSE pendingAcknowledgements[m]]
                 ELSE pendingAcknowledgements
           /\ ackTimers' = IF placesEntry(res) THEN armTimer(ackTimers, c.id, now, i) ELSE ackTimers
           /\ calls' = [calls EXCEPT ![i].pc = n.pc]
           /\ effects' = effects \cup n.eff
                             \cup (IF res = "ok" THEN {Effect(i, "marked")} ELSE {})
    /\ UNCHANGED <<now, ticks, processedMessages, botOpenIdCache, forwardVars, bufferVars,
                   groupVars, sendVars, logVars>>

\* the deliver callback of the dispatch issues an outbound send
TaskDeliver(i) ==
    /\ calls[i].pc = "dispatching"
    /\ Effect(i, "send") \notin effects
    /\ effects' = effects \cup {Effect(i, "send")}
    /\ UNCHANGED <<now, ticks, processedMessages, botOpenIdCache,
                   pendingAcknowledgements, calls, forwardVars, bufferVars,
                   groupVars, sendVars, ackVars, logVars>>

\* the try/catch around the removal (lines 860-870): onMessage returns
afterRemove(res) == "done"

\* removePendingAcknowledgement runs unless removeReaction threw (lines 864-869)
removesEntry(res) == res # "throw"

\* the dispatch and the final flush complete (lines 847-857) and the entry
\* of the message is read (line 862): if there is one, removeReaction is
\* called and awaited (line 864), else onMessage returns
TaskDispatchDone(i) ==
    /\ calls[i].pc = "dispatching"
    /\ IF calls[i].id \in DOMAIN pendingAcknowledgements
       THEN /\ calls' = [calls EXCEPT ![i].pc = "removing"]
            /\ effects' = effects \cup {Effect(i, "remove")}
       ELSE /\ calls' = [calls EXCEPT ![i].pc = "done"]
            /\ UNCHANGED effects
    /\ UNCHANGED <<now, ticks, processedMessages, botOpenIdCache, pendingAcknowledgements,
                   forwardVars, bufferVars,
                   groupVars, sendVars, ackVars, logVars>>

\* removeReaction resolves with res: the entry is deleted (line 865) unless
\* it threw, and onMessage returns (lines 866-870)
TaskRemoved(i, res) ==
    /\ calls[i].pc = "removing"
    /\ calls' = [calls EXCEPT ![i].pc = afterRemove(res)]
    /\ pendingAcknowledgements' =
          IF removesEntry(res)
          THEN [m \in (DOMAIN pendingAcknowledgements) \ {calls[i].id} |->
                  pendingAcknowledgements[m]]
          ELSE pendingAcknowledgements
    /\ UNCHANGED <<now, ticks, processedMessages, botOpenIdCache, effects,
                   forwardVars, bufferVars,
                   groupVars, sendVars, ackVars, logVars>>

\* the dispatch or the final flush throws (lines 847-857): onMessage rejects
\* before line 860 and the handler logs it (gateway.ts:615)
TaskDispatchThrows(i) ==
    /\ calls[i].pc = "dispatching"
    /\ calls' = [calls EXCEPT ![i].pc = "rejected"]
    /\ UNCHANGED <<now, ticks, processedMessages, botOpenIdCache, effects,
                   pendingAcknowledgements, forwardVars, bufferVars,
                   groupVars, sendVars, ackVars, logVars>>

\* a clean-up timer runs (gateway.ts:606)
AckTimerFires(t) ==
    /\ t \in ackTimers
    /\ now >= t.due
    /\ ackTimers' = ackTimers \ {t}
    /\ pendingAcknowledgements' =
          [m \in (DOMAIN pendingAcknowledgements) \ {t.id} |-> pendingAcknowledgements[m]]
    /\ UNCHANGED <<now, ticks, processedMessages, botOpenIdCache, calls, effects,
                   forwardVars, bufferVars, groupVars, sendVars, logVars>>

\* time passes until the next clean-up timer is due
WaitForAckTimer ==
    /\ ackTimers # {}
    /\ \A t \in ackTimers : now < t.due
    /\ now' = (CHOOSE t \in ackTimers : \A u \in ackTimers : t.due <= u.due).due
    /\ ticks' = ticks + 1
    /\ UNCHANGED <<processedMessages, botOpenIdCache, pendingAcknowledgements,
                   calls, effects, forwardVars, bufferVars, groupVars, sendVars, ackVars, logVars>>

\* outcomes of removeReaction: ok, {ok: false}, or an exception
RemoveResults == {"ok", "fail", "throw"}

\* outcomes of addReaction (card-callback.ts:980-998): {ok: true} with a reaction
\* id, {ok: true} without one, {ok: false}, or an exception
AckResults == {"ok", "noid", "fail", "throw"}

----------------------------------------------------------------------------
(* bot-registry.ts and channel.ts: forwarding of @-mentions between bots   *)

\* the literal `@${entry.name}` (bot-registry.ts:58, 71)
AtName(name) == "@" \o name

\* variant: the sender's own entry is not skipped
detectMentionedBots_withSelf(text, selfAccountId) ==
    LET Hit(b) == Includes(text, AtName(botEntries[b].name))
    IN  SelectSeq(registry, Hit)

\* detectMentionedBots(text, selfAccountId), in registry order: the bots
\* other than the sender whose "@" + name, the name of the entry, is in the
\* text
detectMentionedBots(text, selfAccountId) ==
    LET Hit(b) == b # selfAccountId /\ Includes(text, AtName(botEntries[b].name))
    IN  SelectSeq(registry, Hit)

\* the edge key `${sender}→${target}`
Edge(sender, target) == <<sender, target>>

\* the two guards of forwardMentionToBot: "depth", "edge" or "go"
forwardGuard(ctx, edge) ==
    IF ctx.depth >= MAX_FORWARD_DEPTH THEN "depth"
    ELSE IF edge \in ctx.visitedEdges THEN "edge"
    ELSE "go"

\* variant: the context handed on unchanged
newCtx_same(ctx, edge) == ctx

\* variant: the depth is counted but the edge is not recorded
newCtx_noEdge(ctx, edge) ==
    [depth |-> ctx.depth + 1, visitedEdges |-> ctx.visitedEdges]

\* variant: the edge is added to the set of the context received
callerCtx_mutating(ctx, edge) ==
    [depth |-> ctx.depth, visitedEdges |-> ctx.visitedEdges \cup {edge}]

\* the context of the caller after forwardMentionToBot(..., ctx): the set is
\* copied at line 307, the object received is left as it was
callerCtx(ctx, edge) == ctx

\* variant: the depth is carried over as it is
newCtx_sameDepth(ctx, edge) ==
    [depth |-> ctx.depth, visitedEdges |-> ctx.visitedEdges \cup {edge}]

\* variant: the set of the new context holds the new edge only
newCtx_onlyEdge(ctx, edge) ==
    [depth |-> ctx.depth + 1, visitedEdges |-> {edge}]

\* newCtx of forwardMentionToBot
newCtx(ctx, edge) ==
    [depth |-> ctx.depth + 1, visitedEdges |-> ctx.visitedEdges \cup {edge}]

\* the targets createGroupDeliver forwards a fragment to (lines 354, 388)
forwardTargets(text, senderAccountId, forwardCtx) ==
    LET mentionedBots == detectMentionedBots(text, senderAccountId)
    IN  IF forwardCtx.depth < MAX_FORWARD_DEPTH /\ Len(mentionedBots) > 0
        THEN mentionedBots
        ELSE <<>>

\* a dispatch whose deliver function is createGroupDeliver(acct, chatId, cfg, ctx)
Frame(acct, chatId, ctx) ==
    [acct |-> acct, chatId |-> chatId, ctx |-> ctx, frag |-> 0, targets |-> <<>>]

\* the group chats a root message may come from
ChatIds == {"oc_1", "oc_2"}

\* variant: the synthesized context authorizes commands
forwardMsgCtx_authorized(from, targetAccountId, chatId) ==
    [From |-> from, AccountId |-> targetAccountId, To |-> chatId,
     ChatType |-> "group", CommandAuthorized |-> TRUE, WasMentioned |-> TRUE]

\* msgCtx of forwardMentionToBot (lines 311-322)
forwardMsgCtx(from, targetAccountId, chatId) ==
    [From |-> from, AccountId |-> targetAccountId, To |-> chatId,
     ChatType |-> "group", CommandAuthorized |-> FALSE, WasMentioned |-> TRUE]

\* msgCtx of onMessage (lines 710-739) for a message of a chat of the given
\* type; a message that was not mentioned has no WasMentioned field
onMessageMsgCtx(senderId, accountId, chatId, chatType, wasMentioned) ==
    [From |-> senderId, AccountId |-> accountId, To |-> chatId,
     ChatType |-> IF chatType = "p2p" THEN "direct" ELSE "group",
     CommandAuthorized |-> TRUE, WasMentioned |-> wasMentioned]

\* msgCtx of the HTTP card callback handler (card-callback.ts:193-206): a
\* group context when the callback names a chat, else a direct one
cardCallbackMsgCtx(openId, accountId, openChatId) ==
    [From |-> openId, AccountId |-> accountId,
     To |-> IF openChatId # "" THEN openChatId ELSE openId,
     ChatType |-> IF openChatId # "" THEN "group" ELSE "direct",
     CommandAuthorized |-> FALSE, WasMentioned |-> FALSE]

\* cachedChatType || "p2p" of the card.action.trigger handler
\* (gateway.ts:667-668)
cardChatType(cached) == IF cached = None THEN "p2p" ELSE cached

\* what chatTypeCache.get(openChatId) may return
CachedChatTypes == {None, "p2p", "group"}

\* an entry of the log of contexts: the context handed to the dispatcher,
\* the function that built it, the event it was built for and, for a
\* forward, at which depth and for which sender
Built(by, event, depth, sender, ctx) ==
    [by |-> by, event |-> event, depth |-> depth, sender |-> sender, ctx |-> ctx]

\* senderBot?.openId || senderAccount.appId (line 312)
FromOf(sender) ==
    IF sender \in DOMAIN botEntries THEN botEntries[sender].openId ELSE "cli_" \o sender

Top == fstack[Len(fstack)]

SetTop(f) == [fstack EXCEPT ![Len(fstack)] = f]

\* texts an agent may produce
FragmentTexts == {<<"hi">>, <<"@A">>, <<"@B">>, <<"@C">>, <<"@Z">>, <<"@B", "@C">>}

\* replies: the agent of a bot streams the same text in 0 .. MaxFragments fragments
Scripts ==
    {<<>>} \cup {[k \in 1 .. n |-> t] : n \in 1 .. MaxFragments, t \in FragmentTexts}

\* the entries when the accounts started: every app as it was first seen, or
\* the app of the bot registered last renamed on the platform before its
\* account started (syncBotInfo registers botInfo.app_name)
RegisteredOrRenamed ==
    {RegisteredAtStart,
     [b \in DOMAIN RegisteredAtStart |->
        IF b = registry[Len(registry)]
        THEN [name |-> "Z", openId |-> EntryOf(b).openId]
        ELSE EntryOf(b)]}

InitChain ==
    /\ now = StartTime
    /\ ticks = 0
    /\ processedMessages = [a \in Accounts |-> EmptyCache]
    /\ botOpenIdCache = [a \in Accounts |-> OpenIdOf(a)]
    /\ pendingAcknowledgements = EmptyCache
    /\ calls = <<>>
    /\ effects = {}
    /\ registry = ThreeBots
    /\ script \in [Bots -> Scripts]
    /\ fphase = "idle"
    /\ fstack = <<>>
    /\ forwards = <<>>
    /\ skips = <<>>
    /\ fthrow = FALSE
    /\ rejected = <<>>
    /\ blockTextBuffer = <<>>
    /\ blockMediaBuffer = <<>>
    /\ blockReplyToId = None
    /\ flushTimer = 0
    /\ flushTimers = {}
    /\ bufferStartTime = 0
    /\ dmReplied = FALSE
    /\ dtask = Task("idle")
    /\ tcalls = <<>>
    /\ frags = <<>>
    /\ flushes = <<>>
    /\ sends = <<>>
    /\ opened = 0
    /\ groupReplied = FALSE
    /\ gtask = GroupIdle
    /\ api = ApiIdle
    /\ attempts = <<>>
    /\ ackTimers = {}
    /\ botEntries \in RegisteredOrRenamed
    /\ msgCtxs = <<>>
    /\ ackAccounts = {"A"}
    /\ late = 0

\* onMessage, entered by the "im.message.receive_v1" handler for a group
\* message that mentions the bot, dispatches it (lines 839-854): root context
StartDispatch(a, chatId) ==
    /\ fphase = "idle"
    /\ fphase' = "running"
    /\ fstack' = <<Frame(a, chatId, [depth |-> 0, visitedEdges |-> {}])>>
    /\ msgCtxs' = Append(msgCtxs,
           Built("onMessage", "im.message.receive_v1", 0, "user",
                 onMessageMsgCtx("ou_user", a, chatId, "group", TRUE)))
    /\ UNCHANGED <<registry, script, forwards, skips, fthrow, rejected, inboundVars, bufferVars,
                   groupVars, sendVars, ackVars, botEntries, ackAccounts, late>>

\* the "card.action.trigger" handler (gateway.ts:625-699) and its
\* setImmediate task: a user pressed a button of a card in chat openChatId
\* ("": the event names no chat); the handler makes a text message of it,
\* with wasMentioned true, chatId openChatId || openId and the chat type of
\* the cache (p2p without a chat), and onMessage dispatches it like a message that
\* was received: to createGroupDeliver with a root context in a group chat,
\* to bufferedDeliver, which forwards nothing, in a direct chat
CardAction(a, openChatId, cached) ==
    /\ fphase = "idle"
    /\ LET openId == "ou_user"
           chatId == IF openChatId # "" THEN openChatId ELSE openId
           chatType == cardChatType(IF openChatId # "" THEN cached ELSE None)
       IN  /\ msgCtxs' = Append(msgCtxs,
                  Built("onMessage", "card.action.trigger", 0, "user",
                        onMessageMsgCtx(openId, a, chatId, chatType, TRUE)))
           /\ IF chatType = "group"
              THEN /\ fphase' = "running"
                   /\ fstack' = <<Frame(a, chatId, [depth |-> 0, visitedEdges |-> {}])>>
              ELSE /\ fphase' = "direct"
                   /\ UNCHANGED fstack
    /\ UNCHANGED <<registry, script, forwards, skips, fthrow, rejected, inboundVars, bufferVars,
                   groupVars, sendVars, ackVars, botEntries, ackAccounts, late>>

\* number of card callbacks handled over HTTP
CardCallbacks ==
    Cardinality({k \in 1 .. Len(msgCtxs) : msgCtxs[k].by = "createCardCallbackHandler"})

\* the HTTP card callback handler (card-callback.ts:75-236) dispatches a
\* card action with a context and a deliver function of its own
CardCallback(a, openChatId) ==
    /\ msgCtxs' = Append(msgCtxs,
           Built("createCardCallbackHandler", "card callback", 0, "user",
                 cardCallbackMsgCtx("ou_user", a, openChatId)))
    /\ UNCHANGED <<registry, script, fphase, fstack, forwards, skips, fthrow, rejected,
                   inboundVars, bufferVars,
                   groupVars, sendVars, ackVars, botEntries, ackAccounts, late>>

\* the dispatcher calls deliver with the next fragment (lines 345-388)
Deliver ==
    /\ fphase = "running"
    /\ ~fthrow
    /\ Top.targets = <<>>
    /\ Top.frag < Len(script[Top.acct])
    /\ LET text == script[Top.acct][Top.frag + 1]
       IN  fstack' = SetTop([Top EXCEPT !.frag = Top.frag + 1,
                                        !.targets = forwardTargets(text, Top.acct, Top.ctx)])
    /\ UNCHANGED <<registry, script, fphase, forwards, skips, fthrow, rejected,
                   inboundVars, bufferVars,
                   groupVars, sendVars, ackVars, logVars>>

\* forwardMentionToBot for the next mentioned bot (lines 269-332)
Forward ==
    /\ fphase = "running"
    /\ ~fthrow
    /\ Top.targets # <<>>
    /\ LET targetBot == Head(Top.targets)
           edge == Edge(Top.acct, targetBot)
           g == forwardGuard(Top.ctx, edge)
           rest == [Top EXCEPT !.targets = Tail(Top.targets)]
       IN  IF g = "go"
           THEN /\ Len(fstack) < MaxStack
                /\ fstack' = Append(SetTop([rest EXCEPT !.ctx = callerCtx(Top.ctx, edge)]),
                                    Frame(targetBot, Top.chatId, newCtx(Top.ctx, edge)))
                /\ forwards' = Append(forwards, [edge |-> edge, depth |-> Top.ctx.depth])
                /\ msgCtxs' = Append(msgCtxs,
                       Built("forwardMentionToBot", "forward", Top.ctx.depth + 1, Top.acct,
                             forwardMsgCtx(FromOf(Top.acct), targetBot, Top.chatId)))
                /\ UNCHANGED skips
           ELSE /\ fstack' = SetTop(rest)
                /\ skips' = Append(skips, [edge |-> edge, why |-> g])
                /\ UNCHANGED <<forwards, msgCtxs>>
    /\ UNCHANGED <<registry, script, fphase, fthrow, rejected, inboundVars, bufferVars,
                   groupVars, sendVars, ackVars, botEntries, ackAccounts, late>>

\* number of forwards whose route resolution threw
RouteThrows == Cardinality({k \in 1 .. Len(rejected) : rejected[k].cause = "route"})

\* forwardMentionToBot throws in resolveAgentRoute (line 290): nothing catches
\* it in the for loop of createGroupDeliver (lines 389-391), whose call rejects
ForwardThrows ==
    /\ fphase = "running"
    /\ ~fthrow
    /\ Top.targets # <<>>
    /\ RouteThrows < MaxThrows
    /\ LET targetBot == Head(Top.targets)
           edge == Edge(Top.acct, targetBot)
       IN  /\ forwardGuard(Top.ctx, edge) = "go"
           /\ fstack' = SetTop([Top EXCEPT !.targets = <<>>])
           /\ rejected' = Append(rejected,
                  [acct |-> Top.acct, edge |-> edge, cause |-> "route",
                   dropped |-> Tail(Top.targets)])
    /\ fthrow' = TRUE
    /\ UNCHANGED <<registry, script, fphase, forwards, skips, inboundVars, bufferVars,
                   groupVars, sendVars, ackVars, logVars>>

\* the runtime's dispatcher handles the rejected deliver call and goes on
DispatcherCatches ==
    /\ fphase = "running"
    /\ fthrow
    /\ fthrow' = FALSE
    /\ UNCHANGED <<registry, script, fphase, fstack, forwards, skips, rejected,
                   inboundVars, bufferVars,
                   groupVars, sendVars, ackVars, logVars>>

\* the runtime's dispatch rejects with the exception of the deliver call: the
\* forwardMentionToBot awaiting it (line 325) throws in turn; at the root the
\* exception ends onMessage and is logged by the handler (gateway.ts:615)
DispatchRejects ==
    /\ fphase = "running"
    /\ fthrow
    /\ IF Len(fstack) = 1
       THEN /\ fstack' = <<>>
            /\ fphase' = "done"
            /\ fthrow' = FALSE
            /\ UNCHANGED rejected
       ELSE LET parent == fstack[Len(fstack) - 1]
            IN  /\ fstack' = [SubSeq(fstack, 1, Len(fstack) - 1)
                                EXCEPT ![Len(fstack) - 1].targets = <<>>]
                /\ rejected' = Append(rejected,
                       [acct |-> parent.acct, edge |-> Edge(parent.acct, Top.acct),
                        cause |-> "dispatch", dropped |-> parent.targets])
                /\ UNCHANGED <<fphase, fthrow>>
    /\ UNCHANGED <<registry, script, forwards, skips, inboundVars, bufferVars,
                   groupVars, sendVars, ackVars, logVars>>

\* dispatchReplyWithBufferedBlockDispatcher resolves: no fragment is left
DispatchDone ==
    /\ fphase = "running"
    /\ ~fthrow
    /\ Top.targets = <<>>
    /\ Top.frag = Len(script[Top.acct])
    /\ fstack' = SubSeq(fstack, 1, Len(fstack) - 1)
    /\ fphase' = IF Len(fstack) = 1 THEN "done" ELSE "running"
    /\ UNCHANGED <<registry, script, forwards, skips, fthrow, rejected, inboundVars, bufferVars,
                   groupVars, sendVars, ackVars, logVars>>

\* One root dispatch of a group message to bot A, and the forwards it causes
NextChain ==
    \/ StartDispatch("A", "oc_1")
    \/ Deliver
    \/ Forward
    \/ DispatchDone

SpecChain == InitChain /\ [][NextChain]_vars

\* every continuation that is ready runs
SpecChainFair == SpecChain /\ WF_vars(NextChain)

\* The same root dispatch with one-fragment replies, where route resolution
\* may throw in up to MaxThrows forwards
InitChainFail ==
    /\ now = StartTime
    /\ ticks = 0
    /\ processedMessages = [a \in Accounts |-> EmptyCache]
    /\ botOpenIdCache = [a \in Accounts |-> OpenIdOf(a)]
    /\ pendingAcknowledgements = EmptyCache
    /\ calls = <<>>
    /\ effects = {}
    /\ registry = ThreeBots
    /\ script \in [Bots -> {<<t>> : t \in FragmentTexts}]
    /\ fphase = "idle"
    /\ fstack = <<>>
    /\ forwards = <<>>
    /\ skips = <<>>
    /\ fthrow = FALSE
    /\ rejected = <<>>
    /\ blockTextBuffer = <<>>
    /\ blockMediaBuffer = <<>>
    /\ blockReplyToId = None
    /\ flushTimer = 0
    /\ flushTimers = {}
    /\ bufferStartTime = 0
    /\ dmReplied = FALSE
    /\ dtask = Task("idle")
    /\ tcalls = <<>>
    /\ frags = <<>>
    /\ flushes = <<>>
    /\ sends = <<>>
    /\ opened = 0
    /\ groupReplied = FALSE
    /\ gtask = GroupIdle
    /\ api = ApiIdle
    /\ attempts = <<>>
    /\ ackTimers = {}
    /\ botEntries = RegisteredAtStart
    /\ msgCtxs = <<>>
    /\ ackAccounts = {"A"}
    /\ late = 0

\* bound of the card callbacks over HTTP
MaxCardCallbacks == 1

\* One root dispatch with one-fragment replies, for a message of any of the
\* group chats or for a button pressed on a card in one of them, and the
\* forwards it causes; card callbacks over HTTP
NextChats ==
    \/ \E chatId \in ChatIds : StartDispatch("A", chatId)
    \/ \E openChatId \in ChatIds \cup {""}, cached \in CachedChatTypes :
          CardAction("A", openChatId, cached)
    \/ \E openChatId \in ChatIds \cup {""} :
          CardCallbacks < MaxCardCallbacks /\ CardCallback("A", openChatId)
    \/ Deliver
    \/ Forward
    \/ DispatchDone

SpecChats == InitChainFail /\ [][NextChats]_vars

NextChainFail ==
    \/ StartDispatch("A", "oc_1")
    \/ Deliver
    \/ Forward
    \/ ForwardThrows
    \/ DispatcherCatches
    \/ DispatchRejects
    \/ DispatchDone

SpecChainFail == InitChainFail /\ [][NextChainFail]_vars

\* position of a bot in the registry
Position(b) == CHOOSE k \in 1 .. Len(registry) : registry[k] = b

\* A registry of NumDeepBots bots; each of the first `last` - 1 answers with a
\* mention of the bot registered after it, the others with a plain text
InitDeep ==
    /\ now = StartTime
    /\ ticks = 0
    /\ processedMessages = [a \in Accounts |-> EmptyCache]
    /\ botOpenIdCache = [a \in Accounts |-> OpenIdOf(a)]
    /\ pendingAcknowledgements = EmptyCache
    /\ calls = <<>>
    /\ effects = {}
    /\ registry = SubSeq(BotNames, 1, NumDeepBots)
    /\ \E last \in 1 .. NumDeepBots :
          script = [b \in Bots |->
                      IF Position(b) < last
                      THEN << <<AtName(EntryOf(registry[Position(b) + 1]).name)>> >>
                      ELSE << <<"hi">> >>]
    /\ fphase = "idle"
    /\ fstack = <<>>
    /\ forwards = <<>>
    /\ skips = <<>>
    /\ fthrow = FALSE
    /\ rejected = <<>>
    /\ blockTextBuffer = <<>>
    /\ blockMediaBuffer = <<>>
    /\ blockReplyToId = None
    /\ flushTimer = 0
    /\ flushTimers = {}
    /\ bufferStartTime = 0
    /\ dmReplied = FALSE
    /\ dtask = Task("idle")
    /\ tcalls = <<>>
    /\ frags = <<>>
    /\ flushes = <<>>
    /\ sends = <<>>
    /\ opened = 0
    /\ groupReplied = FALSE
    /\ gtask = GroupIdle
    /\ api = ApiIdle
    /\ attempts = <<>>
    /\ ackTimers = {}
    /\ botEntries = RegisteredAtStart
    /\ msgCtxs = <<>>
    /\ ackAccounts = {"A"}
    /\ late = 0

NextDeep ==
    \/ StartDispatch("A", "oc_1")
    \/ Deliver
    \/ Forward
    \/ DispatchDone

SpecDeep == InitDeep /\ [][NextDeep]_vars

----------------------------------------------------------------------------
(* bot-registry.ts and bot-info-sync.ts: registration at account start     *)

\* registry.set(entry.accountId, entry): a Map keeps the position of a key
\* it already holds (bot-registry.ts:21-24)
registerBot(order, entries, accountId, entry) ==
    [order |-> IF accountId \in DOMAIN entries THEN order ELSE Append(order, accountId),
     entries |-> [b \in (DOMAIN entries) \cup {accountId} |->
                    IF b = accountId THEN entry ELSE entries[b]]]

\* what getBotInfo may return for an account: the app as it was first seen,
\* the same app after it was renamed on the platform, or the app of changed
\* credentials, with an open_id of its own
BotInfos(a) ==
    {EntryOf(a), [name |-> "Z", openId |-> EntryOf(a).openId],
     [name |-> a, openId |-> "ou_Z"]}

\* syncBotInfo(account) (bot-info-sync.ts:159-182): returns early without a
\* token or without bot info, registers the bot otherwise
SyncBotInfo(a, hasToken, hasInfo, info) ==
    /\ IF hasToken /\ hasInfo
       THEN LET r == registerBot(registry, botEntries, a, info)
            IN  /\ registry' = r.order
                /\ botEntries' = r.entries
       ELSE UNCHANGED <<registry, botEntries>>
    /\ UNCHANGED <<script, fphase, fstack, forwards, skips, fthrow, rejected, msgCtxs, ackAccounts, late,
                   inboundVars, bufferVars, groupVars, sendVars, ackVars>>

\* the accounts of the three-bot runs
StartAccounts == {ThreeBots[k] : k \in 1 .. Len(ThreeBots)}

\* gateway.startAccount runs for the accounts in any order and any number
\* of times (channel.ts:659-666)
InitRegistry ==
    /\ now = StartTime
    /\ ticks = 0
    /\ processedMessages = [a \in Accounts |-> EmptyCache]
    /\ botOpenIdCache = [a \in Accounts |-> OpenIdOf(a)]
    /\ pendingAcknowledgements = EmptyCache
    /\ calls = <<>>
    /\ effects = {}
    /\ registry = <<>>
    /\ script = [b \in Bots |-> <<>>]
    /\ fphase = "idle"
    /\ fstack = <<>>
    /\ forwards = <<>>
    /\ skips = <<>>
    /\ fthrow = FALSE
    /\ rejected = <<>>
    /\ blockTextBuffer = <<>>
    /\ blockMediaBuffer = <<>>
    /\ blockReplyToId = None
    /\ flushTimer = 0
    /\ flushTimers = {}
    /\ bufferStartTime = 0
    /\ dmReplied = FALSE
    /\ dtask = Task("idle")
    /\ tcalls = <<>>
    /\ frags = <<>>
    /\ flushes = <<>>
    /\ sends = <<>>
    /\ opened = 0
    /\ groupReplied = FALSE
    /\ gtask = GroupIdle
    /\ api = ApiIdle
    /\ attempts = <<>>
    /\ ackTimers = {}
    /\ botEntries = RegisteredAtStart
    /\ msgCtxs = <<>>
    /\ ackAccounts = {"A"}
    /\ late = 0

NextRegistry ==
    \E a \in StartAccounts, hasToken \in BOOLEAN, hasInfo \in BOOLEAN :
        \E info \in BotInfos(a) : SyncBotInfo(a, hasToken, hasInfo, info)

SpecRegistry == InitRegistry /\ [][NextRegistry]_vars

----------------------------------------------------------------------------
(* channel.ts: direct-chat delivery (rawDeliver, flushBlockBuffer,         *)
(* bufferedDeliver). A text is the sequence of the pieces that join puts   *)
(* on separate lines; the text of a fragment is empty, blank, a word, or   *)
(* "fence", a text with a code fence in it.                                *)

\* String.prototype.trim on the texts of the model
Trim(t) == IF t = " " THEN "" ELSE t

\* the text of a fragment as a sequence of pieces
Pieces(t) == IF Trim(t) = "" THEN <<>> ELSE <<Trim(t)>>

\* rawDeliver(text, mediaUrls, replyToId) called when dmReplied = replied: the
\* sends it makes one after the other (a post send that fails is followed by
\* a text send, see DeliverSendDone)
rawDeliver(replied, text, mediaUrls, replyToId) ==
    LET effectiveReplyTo == IF ~replied THEN replyToId ELSE None
        textSend(kind) == [kind |-> kind, body |-> text, replyTo |-> effectiveReplyTo]
        mediaSend(k) == [kind |-> "media", body |-> <<mediaUrls[k]>>, replyTo |-> None]
    IN  IF Len(mediaUrls) > 0
        THEN (IF text # <<>> THEN <<textSend("text")>> ELSE <<>>)
             \o [k \in 1 .. Len(mediaUrls) |-> mediaSend(k)]
        ELSE IF text # <<>>
        THEN <<textSend(IF Includes(text, "fence") THEN "post" ELSE "text")>>
        ELSE <<>>

\* variant: bufferStartTime survives the flush
flushBlockBuffer_keepStart(textBuffer, mediaBuffer, replyId, replied) ==
    [timer |-> 0, start |-> bufferStartTime, text |-> <<>>, media |-> <<>>,
     replyId |-> None,
     queue |-> IF textBuffer # <<>> \/ Len(mediaBuffer) > 0
               THEN rawDeliver(replied, textBuffer, mediaBuffer, replyId)
               ELSE <<>>]

\* variant: the buffered texts survive the flush
flushBlockBuffer_keepText(textBuffer, mediaBuffer, replyId, replied) ==
    [timer |-> 0, start |-> 0, text |-> textBuffer, media |-> <<>>, replyId |-> None,
     queue |-> IF textBuffer # <<>> \/ Len(mediaBuffer) > 0
               THEN rawDeliver(replied, textBuffer, mediaBuffer, replyId)
               ELSE <<>>]

\* flushBlockBuffer: the state it leaves and the sends of its rawDeliver call
flushBlockBuffer(textBuffer, mediaBuffer, replyId, replied) ==
    [timer |-> 0, start |-> 0, text |-> <<>>, media |-> <<>>, replyId |-> None,
     queue |-> IF textBuffer # <<>> \/ Len(mediaBuffer) > 0
               THEN rawDeliver(replied, textBuffer, mediaBuffer, replyId)
               ELSE <<>>]

\* variant: the new items are put in front of the buffer
push_front(buffer, items) == items \o buffer

\* blockTextBuffer.push(text), blockMediaBuffer.push(...mediaUrls) (lines
\* 814-816): the new items are put at the end of the buffer
push(buffer, items) == buffer \o items

\* blockReplyToId after a block (lines 818-820)
anchorAfterBlock(anchor, replyToId, opens) ==
    IF anchor = None /\ replyToId # None THEN replyToId ELSE anchor

\* variant: the ceiling is a millisecond later
capReached_late(t, start) == t - start > MAX_BUFFER_MS

\* variant: every block is flushed at once
capReached_always(t, start) == TRUE

\* Date.now() - bufferStartTime >= MAX_BUFFER_MS (line 823)
capReached(t, start) == t - start >= MAX_BUFFER_MS

\* variant: clearTimeout leaves the callback pending
clearTimeout_none(timers, handle) == timers

\* the pending callbacks after clearTimeout(handle) (lines 790, 827)
clearTimeout(timers, handle) == timers \ {handle}

\* the pending callbacks after setTimeout(..., due - now) (line 828)
setTimeout(timers, due) == timers \cup {due}

\* variant: a shorter delay
timerDue_short(t) == t + FLUSH_DELAY_MS - 1

\* due time of setTimeout(..., FLUSH_DELAY_MS) armed at t (line 828)
timerDue(t) == t + FLUSH_DELAY_MS

\* variant: the content of the fragment is not sent
ownSends_dropped(replied, p) == <<>>

\* the content of a final or tool fragment, sent by bufferedDeliver itself
ownSends(replied, p) ==
    IF Pieces(p.text) # <<>> \/ Len(p.mediaUrls) > 0
    THEN rawDeliver(replied, Pieces(p.text), p.mediaUrls, p.replyToId)
    ELSE <<>>

\* the record of a send: what is sent, and the flush (0: none) it is made for
Sent(item, f, n) ==
    [kind |-> item.kind, body |-> item.body, replyTo |-> item.replyTo,
     flush |-> f, frag |-> n]

\* the record of a call of flushBlockBuffer
Flushed(by, n) ==
    [by |-> by, at |-> now, n |-> n, first |-> opened,
     age |-> IF bufferStartTime = 0 THEN 0 ELSE now - bufferStartTime,
     text |-> blockTextBuffer, media |-> blockMediaBuffer, replyId |-> blockReplyToId]

\* fragments of the runs with every content
ReplyIds == {None, "r1"}

BufferPayloads ==
    [kind : {"block", "final", "tool"}, text : {"", " ", "a", "fence"},
     mediaUrls : {<<>>, <<"u">>}, replyToId : ReplyIds]

\* fragments of the content runs: text blocks with and without anchor, a
\* blank, a media-only and a fenced block; final fragments without content,
\* with text, with text and media; a tool fragment
DirectPayloads ==
    {p \in BufferPayloads :
        \/ /\ p.kind = "block"
           /\ \/ p.text = "a" /\ p.mediaUrls = <<>>
              \/ p.text \in {" ", "fence"} /\ p.mediaUrls = <<>> /\ p.replyToId = "r1"
              \/ p.text = "" /\ p.mediaUrls = <<"u">> /\ p.replyToId = None
        \/ /\ p.kind = "final" /\ p.replyToId = "r1"
           /\ \/ p.text = "a"
              \/ p.text = "" /\ p.mediaUrls = <<>>
        \/ p.kind = "tool" /\ p.text = "a" /\ p.mediaUrls = <<>> /\ p.replyToId = "r1"}

\* fragments of the timing runs
StreamPayloads ==
    {[kind |-> "block", text |-> "a", mediaUrls |-> <<>>, replyToId |-> "r1"]}

\* the dispatcher calls bufferedDeliver(payload, {kind}) (lines 804-837); it
\* makes its calls one after the other
BufferedDeliver(p) ==
    /\ dtask.pc = "ready"
    /\ frags' = Append(frags, [payload |-> p, at |-> now])
    /\ LET n == Len(frags) + 1
           k == Len(flushes) + 1
       IN  IF p.kind = "block"
           THEN LET opens == bufferStartTime = 0
                    start == IF opens THEN now ELSE bufferStartTime
                    textBuffer == push(blockTextBuffer, Pieces(p.text))
                    mediaBuffer == push(blockMediaBuffer, p.mediaUrls)
                    replyId == anchorAfterBlock(blockReplyToId, p.replyToId, opens)
                    F == flushBlockBuffer(textBuffer, mediaBuffer, replyId, dmReplied)
                IN  IF capReached(now, start)
                    THEN /\ blockTextBuffer' = F.text
                         /\ blockMediaBuffer' = F.media
                         /\ blockReplyToId' = F.replyId
                         /\ flushTimer' = F.timer
                         /\ flushTimers' = clearTimeout(flushTimers, flushTimer)
                         /\ bufferStartTime' = F.start
                         /\ opened' = 0
                         /\ flushes' = Append(flushes,
                                [by |-> "cap", at |-> now, n |-> n,
                                 first |-> IF opens THEN n ELSE opened,
                                 age |-> now - start, text |-> textBuffer,
                                 media |-> mediaBuffer, replyId |-> replyId])
                         /\ IF F.queue # <<>>
                            THEN /\ dtask' = [pc |-> "cap", held |-> <<>>,
                                              queue |-> F.queue, flush |-> k]
                                 /\ sends' = Append(sends, Sent(F.queue[1], k, n))
                            ELSE UNCHANGED <<dtask, sends>>
                    ELSE /\ blockTextBuffer' = textBuffer
                         /\ blockMediaBuffer' = mediaBuffer
                         /\ blockReplyToId' = replyId
                         /\ flushTimer' = timerDue(now)
                         /\ flushTimers' = setTimeout(clearTimeout(flushTimers, flushTimer),
                                                      timerDue(now))
                         /\ bufferStartTime' = start
                         /\ opened' = IF opens THEN n ELSE opened
                         /\ UNCHANGED <<dtask, flushes, sends>>
           ELSE LET F == flushBlockBuffer(blockTextBuffer, blockMediaBuffer,
                                          blockReplyToId, dmReplied)
                    own == ownSends(dmReplied, p)
                IN  /\ blockTextBuffer' = F.text
                    /\ blockMediaBuffer' = F.media
                    /\ blockReplyToId' = F.replyId
                    /\ flushTimer' = F.timer
                    /\ flushTimers' = clearTimeout(flushTimers, flushTimer)
                    /\ bufferStartTime' = F.start
                    /\ opened' = 0
                    /\ flushes' = Append(flushes, Flushed("final", n))
                    /\ IF F.queue # <<>>
                       THEN /\ dtask' = [pc |-> "flush", held |-> <<p>>,
                                         queue |-> F.queue, flush |-> k]
                            /\ sends' = Append(sends, Sent(F.queue[1], k, n))
                       ELSE IF own # <<>>
                       THEN /\ dtask' = [pc |-> "own", held |-> <<>>,
                                         queue |-> own, flush |-> 0]
                            /\ sends' = Append(sends, Sent(own[1], 0, n))
                       ELSE UNCHANGED <<dtask, sends>>
    /\ UNCHANGED <<dmReplied, tcalls, inboundVars, forwardVars,
                   groupVars, sendVars, ackVars, logVars>>

\* the text send that follows a post send that failed (lines 768-770)
postFallback(item) == [kind |-> "text", body |-> item.body, replyTo |-> item.replyTo]

\* the send awaited by the current deliver call (or by the flush that ends
\* onMessage) resolves; rawDeliver goes on, then its caller
DeliverSendDone(ok) ==
    /\ dtask.queue # <<>>
    /\ ok \/ dtask.queue[1].kind = "post"
    /\ LET head == dtask.queue[1]
           rest == Tail(dtask.queue)
           n == Len(frags)
       IN  IF head.kind = "post" /\ ~ok
           THEN /\ dtask' = [dtask EXCEPT !.queue = <<postFallback(head)>> \o rest]
                /\ sends' = Append(sends, Sent(postFallback(head), dtask.flush, n))
                /\ UNCHANGED dmReplied
           ELSE LET replied == dmReplied \/ head.kind \in {"text", "post"}
                    own == IF dtask.pc = "flush" THEN ownSends(replied, dtask.held[1])
                           ELSE <<>>
                IN  /\ dmReplied' = replied
                    /\ IF rest # <<>>
                       THEN /\ dtask' = [dtask EXCEPT !.queue = rest]
                            /\ sends' = Append(sends, Sent(rest[1], dtask.flush, n))
                       ELSE IF own # <<>>
                       THEN /\ dtask' = [pc |-> "own", held |-> <<>>,
                                         queue |-> own, flush |-> 0]
                            /\ sends' = Append(sends, Sent(own[1], 0, n))
                       ELSE /\ dtask' = Task(IF dtask.pc = "end" THEN "done" ELSE "ready")
                            /\ UNCHANGED sends
    /\ UNCHANGED <<blockTextBuffer, blockMediaBuffer, blockReplyToId, flushTimer,
                   flushTimers,
                   bufferStartTime, tcalls, frags, flushes, opened,
                   inboundVars, forwardVars,
                   groupVars, sendVars, ackVars, logVars>>

\* the timer callback runs flushBlockBuffer (line 828); nothing awaits it
TimerFires ==
    /\ \E t \in flushTimers :
          /\ now >= t
          /\ flushTimers' = clearTimeout(flushTimers \ {t}, flushTimer)
    /\ LET F == flushBlockBuffer(blockTextBuffer, blockMediaBuffer,
                                 blockReplyToId, dmReplied)
           k == Len(flushes) + 1
       IN  /\ blockTextBuffer' = F.text
           /\ blockMediaBuffer' = F.media
           /\ blockReplyToId' = F.replyId
           /\ flushTimer' = F.timer
           /\ bufferStartTime' = F.start
           /\ opened' = 0
           /\ flushes' = Append(flushes, Flushed("timer", Len(frags)))
           /\ IF F.queue # <<>>
              THEN /\ tcalls' = Append(tcalls, [queue |-> F.queue, flush |-> k])
                   /\ sends' = Append(sends, Sent(F.queue[1], k, Len(frags)))
              ELSE UNCHANGED <<tcalls, sends>>
    /\ UNCHANGED <<dmReplied, dtask, frags, inboundVars, forwardVars,
                   groupVars, sendVars, ackVars, logVars>>

\* tcalls without its i-th call
Without(i) == [j \in 1 .. (Len(tcalls) - 1) |-> IF j < i THEN tcalls[j] ELSE tcalls[j + 1]]

\* the send awaited by a rawDeliver call of a timer callback resolves
TimerSendDone(i, ok) ==
    /\ i \in 1 .. Len(tcalls)
    /\ ok \/ tcalls[i].queue[1].kind = "post"
    /\ LET head == tcalls[i].queue[1]
           rest == Tail(tcalls[i].queue)
           n == Len(frags)
       IN  IF head.kind = "post" /\ ~ok
           THEN /\ tcalls' = [tcalls EXCEPT ![i].queue = <<postFallback(head)>> \o rest]
                /\ sends' = Append(sends, Sent(postFallback(head), tcalls[i].flush, n))
                /\ UNCHANGED dmReplied
           ELSE /\ dmReplied' = (dmReplied \/ head.kind \in {"text", "post"})
                /\ IF rest # <<>>
                   THEN /\ tcalls' = [tcalls EXCEPT ![i].queue = rest]
                        /\ sends' = Append(sends, Sent(rest[1], tcalls[i].flush, n))
                   ELSE /\ tcalls' = Without(i)
                        /\ UNCHANGED sends
    /\ UNCHANGED <<blockTextBuffer, blockMediaBuffer, blockReplyToId, flushTimer,
                   flushTimers,
                   bufferStartTime, dtask, frags, flushes, opened,
                   inboundVars, forwardVars,
                   groupVars, sendVars, ackVars, logVars>>

\* the dispatch of the reply resolves; onMessage flushes what is left (line 857)
EndDispatch ==
    /\ dtask.pc = "ready"
    /\ LET F == flushBlockBuffer(blockTextBuffer, blockMediaBuffer,
                                 blockReplyToId, dmReplied)
           k == Len(flushes) + 1
       IN  /\ blockTextBuffer' = F.text
           /\ blockMediaBuffer' = F.media
           /\ blockReplyToId' = F.replyId
           /\ flushTimer' = F.timer
           /\ flushTimers' = clearTimeout(flushTimers, flushTimer)
           /\ bufferStartTime' = F.start
           /\ opened' = 0
           /\ flushes' = Append(flushes, Flushed("end", Len(frags)))
           /\ IF F.queue # <<>>
              THEN /\ dtask' = [pc |-> "end", held |-> <<>>, queue |-> F.queue, flush |-> k]
                   /\ sends' = Append(sends, Sent(F.queue[1], k, Len(frags)))
              ELSE /\ dtask' = Task("done")
                   /\ UNCHANGED sends
    /\ UNCHANGED <<dmReplied, tcalls, frags, inboundVars, forwardVars,
                   groupVars, sendVars, ackVars, logVars>>

\* d milliseconds pass; the callback of an armed timer runs when the timer
\* is due or later, so time may pass the due time of a timer that is pending
Advance(d) ==
    /\ d > 0
    /\ dtask.pc # "done" \/ tcalls # <<>>
    /\ now' = now + d
    /\ ticks' = ticks + 1
    /\ IF flushTimer # 0 /\ now + d > flushTimer
       THEN late < MaxLate /\ late' = late + 1
       ELSE UNCHANGED late
    /\ UNCHANGED <<processedMessages, botOpenIdCache, pendingAcknowledgements,
                   calls, effects, forwardVars, bufferVars,
                   groupVars, sendVars, ackVars, botEntries, msgCtxs, ackAccounts>>

\* One direct-chat dispatch: up to MaxDeliveries fragments of every content
InitBuffer ==
    /\ now = StartTime
    /\ ticks = 0
    /\ processedMessages = [a \in Accounts |-> EmptyCache]
    /\ botOpenIdCache = [a \in Accounts |-> OpenIdOf(a)]
    /\ pendingAcknowledgements = EmptyCache
    /\ calls = <<>>
    /\ effects = {}
    /\ registry = ThreeBots
    /\ script = [b \in Bots |-> <<>>]
    /\ fphase = "idle"
    /\ fstack = <<>>
    /\ forwards = <<>>
    /\ skips = <<>>
    /\ fthrow = FALSE
    /\ rejected = <<>>
    /\ blockTextBuffer = <<>>
    /\ blockMediaBuffer = <<>>
    /\ blockReplyToId = None
    /\ flushTimer = 0
    /\ flushTimers = {}
    /\ bufferStartTime = 0
    /\ dmReplied = FALSE
    /\ dtask = Task("ready")
    /\ tcalls = <<>>
    /\ frags = <<>>
    /\ flushes = <<>>
    /\ sends = <<>>
    /\ opened = 0
    /\ groupReplied = FALSE
    /\ gtask = GroupIdle
    /\ api = ApiIdle
    /\ attempts = <<>>
    /\ ackTimers = {}
    /\ botEntries = RegisteredAtStart
    /\ msgCtxs = <<>>
    /\ ackAccounts = {"A"}
    /\ late = 0

NextBuffer ==
    \/ \E p \in DirectPayloads : Len(frags) < MaxDeliveries /\ BufferedDeliver(p)
    \/ \E ok \in BOOLEAN : DeliverSendDone(ok)
    \/ TimerFires
    \/ \E i \in 1 .. Len(tcalls), ok \in BOOLEAN : TimerSendDone(i, ok)
    \/ EndDispatch
    \/ \E d \in {flushTimer - now, flushTimer - now + 1} :
          flushTimer # 0 /\ Advance(d)

SpecBuffer == InitBuffer /\ [][NextBuffer]_vars

\* One direct-chat dispatch: a stream of up to MaxBlocks text blocks over time
InitStream ==
    /\ now = StartTime
    /\ ticks = 0
    /\ processedMessages = [a \in Accounts |-> EmptyCache]
    /\ botOpenIdCache = [a \in Accounts |-> OpenIdOf(a)]
    /\ pendingAcknowledgements = EmptyCache
    /\ calls = <<>>
    /\ effects = {}
    /\ registry = ThreeBots
    /\ script = [b \in Bots |-> <<>>]
    /\ fphase = "idle"
    /\ fstack = <<>>
    /\ forwards = <<>>
    /\ skips = <<>>
    /\ fthrow = FALSE
    /\ rejected = <<>>
    /\ blockTextBuffer = <<>>
    /\ blockMediaBuffer = <<>>
    /\ blockReplyToId = None
    /\ flushTimer = 0
    /\ flushTimers = {}
    /\ bufferStartTime = 0
    /\ dmReplied = FALSE
    /\ dtask = Task("ready")
    /\ tcalls = <<>>
    /\ frags = <<>>
    /\ flushes = <<>>
    /\ sends = <<>>
    /\ opened = 0
    /\ groupReplied = FALSE
    /\ gtask = GroupIdle
    /\ api = ApiIdle
    /\ attempts = <<>>
    /\ ackTimers = {}
    /\ botEntries = RegisteredAtStart
    /\ msgCtxs = <<>>
    /\ ackAccounts = {"A"}
    /\ late = 0

NextStream ==
    \/ \E p \in StreamPayloads : Len(frags) < MaxBlocks /\ BufferedDeliver(p)
    \/ DeliverSendDone(TRUE)
    \/ TimerFires
    \/ \E i \in 1 .. Len(tcalls) : TimerSendDone(i, TRUE)
    \/ EndDispatch
    \/ \E d \in {FLUSH_DELAY_MS - 1, flushTimer - now} :
          flushTimer # 0 /\ ticks < MaxWaits /\ Advance(d)

SpecStream == InitStream /\ [][NextStream]_vars

\* bounds of the flush runs: fragments and clock advances
MaxFlushFrags == 4
MaxFlushWaits == 3

\* fragments of the flush runs: a text block, a final and a tool fragment
FlushPayloads ==
    {[kind |-> k, text |-> "a", mediaUrls |-> <<>>, replyToId |-> "r1"] :
        k \in {"block", "final", "tool"}}

\* One direct-chat dispatch: up to MaxFlushFrags blocks, final and tool
\* fragments over time, so that the buffer is flushed by its timer, at the
\* ceiling, by a final or tool fragment and at the end of the dispatch
NextFlush ==
    \/ \E p \in FlushPayloads : Len(frags) < MaxFlushFrags /\ BufferedDeliver(p)
    \/ DeliverSendDone(TRUE)
    \/ TimerFires
    \/ \E i \in 1 .. Len(tcalls) : TimerSendDone(i, TRUE)
    \/ EndDispatch
    \/ \E d \in {FLUSH_DELAY_MS - 1, flushTimer - now, MAX_BUFFER_MS} :
          flushTimer # 0 /\ ticks < MaxFlushWaits /\ Advance(d)

SpecFlush == InitStream /\ [][NextFlush]_vars

\* bounds of the on-time runs: blocks, and pairs of successive blocks that
\* are one millisecond less than the timer delay apart
MaxTimelyBlocks == 5
MaxShortWaits == 2

\* time passes until the armed timer is due
WaitForFlushTimer ==
    /\ flushTimer # 0
    /\ now < flushTimer
    /\ Advance(flushTimer - now)

\* time passes, one millisecond less than the delay of the timer just armed
ShortWait ==
    /\ flushTimer # 0
    /\ now + FLUSH_DELAY_MS - 1 <= flushTimer
    /\ Advance(FLUSH_DELAY_MS - 1)

\* One direct-chat dispatch: a stream of text blocks, with timers that run
\* on time: time does not pass the due time of an armed timer
InitTimely ==
    /\ now = StartTime
    /\ ticks = 0
    /\ processedMessages = [a \in Accounts |-> EmptyCache]
    /\ botOpenIdCache = [a \in Accounts |-> OpenIdOf(a)]
    /\ pendingAcknowledgements = EmptyCache
    /\ calls = <<>>
    /\ effects = {}
    /\ registry = ThreeBots
    /\ script = [b \in Bots |-> <<>>]
    /\ fphase = "idle"
    /\ fstack = <<>>
    /\ forwards = <<>>
    /\ skips = <<>>
    /\ fthrow = FALSE
    /\ rejected = <<>>
    /\ blockTextBuffer = <<>>
    /\ blockMediaBuffer = <<>>
    /\ blockReplyToId = None
    /\ flushTimer = 0
    /\ flushTimers = {}
    /\ bufferStartTime = 0
    /\ dmReplied = FALSE
    /\ dtask = Task("ready")
    /\ tcalls = <<>>
    /\ frags = <<>>
    /\ flushes = <<>>
    /\ sends = <<>>
    /\ opened = 0
    /\ groupReplied = FALSE
    /\ gtask = GroupIdle
    /\ api = ApiIdle
    /\ attempts = <<>>
    /\ ackTimers = {}
    /\ botEntries = RegisteredAtStart
    /\ msgCtxs = <<>>
    /\ ackAccounts = {"A"}
    /\ late = 0

NextTimely ==
    \/ \E p \in StreamPayloads : Len(frags) < MaxTimelyBlocks /\ BufferedDeliver(p)
    \/ DeliverSendDone(TRUE)
    \/ TimerFires
    \/ \E i \in 1 .. Len(tcalls) : TimerSendDone(i, TRUE)
    \/ EndDispatch
    \/ Cardinality({n \in 2 .. Len(frags) :
                       frags[n].at - frags[n - 1].at = FLUSH_DELAY_MS - 1}) < MaxShortWaits
          /\ ShortWait
    \/ WaitForFlushTimer

SpecTimely == InitTimely /\ [][NextTimely]_vars

\* the event loop runs the timers: time reaches the due time and the
\* callback that is due runs
SpecTimelyFair == SpecTimely /\ WF_vars(WaitForFlushTimer) /\ WF_vars(TimerFires)

\* bounds of the coalescing runs: fragments, clock advances, and the time
\* between two fragments in milliseconds
MaxCoalesce == 3
MaxGaps == 2
BlockGap == 100

\* fragments of the coalescing runs: two text blocks with different texts
\* and two media-only blocks with different media
CoalescePayloads ==
    {[kind |-> "block", text |-> "a", mediaUrls |-> <<>>, replyToId |-> None],
     [kind |-> "block", text |-> "b", mediaUrls |-> <<>>, replyToId |-> None],
     [kind |-> "block", text |-> "", mediaUrls |-> <<"u">>, replyToId |-> None],
     [kind |-> "block", text |-> "", mediaUrls |-> <<"v">>, replyToId |-> None]}

\* One direct-chat dispatch: up to MaxCoalesce blocks, BlockGap ms or a
\* timer delay apart
InitCoalesce ==
    /\ now = StartTime
    /\ ticks = 0
    /\ processedMessages = [a \in Accounts |-> EmptyCache]
    /\ botOpenIdCache = [a \in Accounts |-> OpenIdOf(a)]
    /\ pendingAcknowledgements = EmptyCache
    /\ calls = <<>>
    /\ effects = {}
    /\ registry = ThreeBots
    /\ script = [b \in Bots |-> <<>>]
    /\ fphase = "idle"
    /\ fstack = <<>>
    /\ forwards = <<>>
    /\ skips = <<>>
    /\ fthrow = FALSE
    /\ rejected = <<>>
    /\ blockTextBuffer = <<>>
    /\ blockMediaBuffer = <<>>
    /\ blockReplyToId = None
    /\ flushTimer = 0
    /\ flushTimers = {}
    /\ bufferStartTime = 0
    /\ dmReplied = FALSE
    /\ dtask = Task("ready")
    /\ tcalls = <<>>
    /\ frags = <<>>
    /\ flushes = <<>>
    /\ sends = <<>>
    /\ opened = 0
    /\ groupReplied = FALSE
    /\ gtask = GroupIdle
    /\ api = ApiIdle
    /\ attempts = <<>>
    /\ ackTimers = {}
    /\ botEntries = RegisteredAtStart
    /\ msgCtxs = <<>>
    /\ ackAccounts = {"A"}
    /\ late = 0

NextCoalesce ==
    \/ \E p \in CoalescePayloads : Len(frags) < MaxCoalesce /\ BufferedDeliver(p)
    \/ DeliverSendDone(TRUE)
    \/ TimerFires
    \/ \E i \in 1 .. Len(tcalls) : TimerSendDone(i, TRUE)
    \/ EndDispatch
    \/ \E d \in {BlockGap, flushTimer - now} :
          flushTimer # 0 /\ ticks < MaxGaps /\ Advance(d)

SpecCoalesce == InitCoalesce /\ [][NextCoalesce]_vars

----------------------------------------------------------------------------
(* channel.ts: createGroupDeliver, the sends of a group fragment           *)

\* the element <at user_id="${bot.openId}">${bot.name}</at> of an entry
\* (bot-registry.ts:71)
AtTag(entry) == "<at user_id=\"" \o entry.openId \o "\">" \o entry.name \o "</at>"

\* replaceWithFeishuMentions(text, bots) (bot-registry.ts:68-74): for one bot
\* after the other, every "@" + name of its entry is replaced by its
\* element; a token replaced for one bot matches no later one
replaceWithFeishuMentions(text, bots) ==
    [k \in 1 .. Len(text) |->
        LET J == {j \in 1 .. Len(bots) : text[k] = AtName(botEntries[bots[j]].name)}
        IN  IF J # {}
            THEN AtTag(botEntries[bots[CHOOSE j \in J : \A i \in J : j <= i]])
            ELSE text[k]]

\* sendText?.trim() of a text given as tokens: empty when every token is blank
TrimTokens(text) == SelectSeq(text, LAMBDA t : Trim(t) # "")

\* variant: the media of a fragment are not sent
groupSends_noMedia(wasReplied, text, mediaUrls, payloadReplyToId, selfAccountId) ==
    LET replyToId == IF ~wasReplied THEN payloadReplyToId ELSE None
        mentionedBots == detectMentionedBots(text, selfAccountId)
        sendText == IF Len(mentionedBots) > 0
                    THEN replaceWithFeishuMentions(text, mentionedBots)
                    ELSE text
        textSend(kind) == [kind |-> kind, body |-> sendText, replyTo |-> replyToId]
    IN  IF Len(mediaUrls) > 0
        THEN (IF TrimTokens(sendText) # <<>> THEN <<textSend("text")>> ELSE <<>>)
        ELSE IF sendText # <<>>
        THEN <<textSend(IF Includes(sendText, "fence") THEN "post" ELSE "text")>>
        ELSE <<>>

\* the sends the deliver function of createGroupDeliver makes for a payload
\* when its flag `replied` is wasReplied (lines 346-385), one after the other
groupSends(wasReplied, text, mediaUrls, payloadReplyToId, selfAccountId) ==
    LET replyToId == IF ~wasReplied THEN payloadReplyToId ELSE None
        mentionedBots == detectMentionedBots(text, selfAccountId)
        sendText == IF Len(mentionedBots) > 0
                    THEN replaceWithFeishuMentions(text, mentionedBots)
                    ELSE text
        textSend(kind) == [kind |-> kind, body |-> sendText, replyTo |-> replyToId]
        mediaSend(k) == [kind |-> "media", body |-> <<mediaUrls[k]>>, replyTo |-> None]
    IN  IF Len(mediaUrls) > 0
        THEN (IF TrimTokens(sendText) # <<>> THEN <<textSend("text")>> ELSE <<>>)
             \o [k \in 1 .. Len(mediaUrls) |-> mediaSend(k)]
        ELSE IF sendText # <<>>
        THEN <<textSend(IF Includes(sendText, "fence") THEN "post" ELSE "text")>>
        ELSE <<>>

\* fragments of a group dispatch: texts with and without anchor, a blank, a
\* fenced one, one that mentions bot B, one that mentions the sender itself,
\* media with a text, with a blank text and alone, and an empty fragment
GroupPayloads ==
    {p \in [kind : {"block", "final", "tool"},
            text : {<<>>, <<" ">>, <<"a">>, <<"fence">>, <<"hi", "@B">>, <<"@A">>},
            mediaUrls : {<<>>, <<"u">>}, replyToId : ReplyIds] :
        \/ /\ p.kind = "block"
           /\ \/ p.text = <<"a">> /\ p.mediaUrls = <<>>
              \/ p.text \in {<<" ">>, <<"fence">>, <<"hi", "@B">>, <<"@A">>}
                    /\ p.mediaUrls = <<>> /\ p.replyToId = "r1"
              \/ p.text \in {<<>>, <<" ">>} /\ p.mediaUrls = <<"u">> /\ p.replyToId = "r1"
        \/ /\ p.kind = "final" /\ p.replyToId = "r1"
           /\ \/ p.text = <<"a">> /\ p.mediaUrls = <<"u">>
              \/ p.text = <<>> /\ p.mediaUrls = <<>>
        \/ p.kind = "tool" /\ p.text = <<"a">> /\ p.mediaUrls = <<>> /\ p.replyToId = "r1"}

\* the dispatcher calls the deliver function of the root dispatch with a
\* payload (line 345): the first send is issued (lines 346-385)
GroupDeliver(p) ==
    /\ fphase = "running"
    /\ ~fthrow
    /\ Len(fstack) = 1
    /\ Top.targets = <<>>
    /\ gtask.pc = "idle"
    /\ frags' = Append(frags, [payload |-> p, at |-> now])
    /\ LET queue == groupSends(groupReplied, p.text, p.mediaUrls, p.replyToId, Top.acct)
           targets == forwardTargets(p.text, Top.acct, Top.ctx)
       IN  IF queue # <<>>
           THEN /\ gtask' = [pc |-> "sending", queue |-> queue, targets |-> targets]
                /\ sends' = Append(sends, Sent(queue[1], 0, Len(frags) + 1))
                /\ UNCHANGED fstack
           ELSE /\ fstack' = SetTop([Top EXCEPT !.targets = targets])
                /\ UNCHANGED <<gtask, sends>>
    /\ UNCHANGED <<groupReplied, registry, script, fphase, forwards, skips, fthrow, rejected,
                   blockTextBuffer, blockMediaBuffer, blockReplyToId, flushTimer,
                   flushTimers,
                   bufferStartTime, dmReplied, dtask, tcalls, flushes, opened,
                   inboundVars, sendVars, ackVars, logVars>>

\* the send awaited by the deliver function resolves (lines 363-383); after
\* the last one the mentioned bots are forwarded to (lines 388-392)
GroupSendDone(ok) ==
    /\ gtask.pc = "sending"
    /\ ok \/ gtask.queue[1].kind = "post"
    /\ LET head == gtask.queue[1]
           rest == Tail(gtask.queue)
           n == Len(frags)
       IN  IF head.kind = "post" /\ ~ok
           THEN /\ gtask' = [gtask EXCEPT !.queue = <<postFallback(head)>> \o rest]
                /\ sends' = Append(sends, Sent(postFallback(head), 0, n))
                /\ UNCHANGED <<groupReplied, fstack>>
           ELSE /\ groupReplied' = (groupReplied \/ head.kind \in {"text", "post"})
                /\ IF rest # <<>>
                   THEN /\ gtask' = [gtask EXCEPT !.queue = rest]
                        /\ sends' = Append(sends, Sent(rest[1], 0, n))
                        /\ UNCHANGED fstack
                   ELSE /\ gtask' = GroupIdle
                        /\ fstack' = SetTop([Top EXCEPT !.targets = gtask.targets])
                        /\ UNCHANGED sends
    /\ UNCHANGED <<registry, script, fphase, forwards, skips, fthrow, rejected,
                   blockTextBuffer, blockMediaBuffer, blockReplyToId, flushTimer,
                   flushTimers,
                   bufferStartTime, dmReplied, dtask, tcalls, frags, flushes, opened,
                   inboundVars, sendVars, ackVars, logVars>>

\* One root dispatch of a group message to bot A, whose agent produces up to
\* MaxDeliveries fragments of every content; bot B answers a forward with a
\* mention of bot C or with nothing
InitGroup ==
    /\ now = StartTime
    /\ ticks = 0
    /\ processedMessages = [a \in Accounts |-> EmptyCache]
    /\ botOpenIdCache = [a \in Accounts |-> OpenIdOf(a)]
    /\ pendingAcknowledgements = EmptyCache
    /\ calls = <<>>
    /\ effects = {}
    /\ registry = ThreeBots
    /\ \E reply \in {<<>>, << <<"@C">> >>} :
          script = [b \in Bots |-> IF b = "B" THEN reply
                                   ELSE IF b = "C" THEN << <<"hi">> >> ELSE <<>>]
    /\ fphase = "idle"
    /\ fstack = <<>>
    /\ forwards = <<>>
    /\ skips = <<>>
    /\ fthrow = FALSE
    /\ rejected = <<>>
    /\ blockTextBuffer = <<>>
    /\ blockMediaBuffer = <<>>
    /\ blockReplyToId = None
    /\ flushTimer = 0
    /\ flushTimers = {}
    /\ bufferStartTime = 0
    /\ dmReplied = FALSE
    /\ dtask = Task("idle")
    /\ tcalls = <<>>
    /\ frags = <<>>
    /\ flushes = <<>>
    /\ sends = <<>>
    /\ opened = 0
    /\ groupReplied = FALSE
    /\ gtask = GroupIdle
    /\ api = ApiIdle
    /\ attempts = <<>>
    /\ ackTimers = {}
    /\ botEntries = RegisteredAtStart
    /\ msgCtxs = <<>>
    /\ ackAccounts = {"A"}
    /\ late = 0

NextGroup ==
    \/ StartDispatch("A", "oc_1")
    \/ \E p \in GroupPayloads : Len(frags) < MaxDeliveries /\ GroupDeliver(p)
    \/ \E ok \in BOOLEAN : GroupSendDone(ok)
    \/ Forward
    \/ Len(fstack) > 1 /\ Deliver
    \/ gtask.pc = "idle" /\ DispatchDone

SpecGroup == InitGroup /\ [][NextGroup]_vars

----------------------------------------------------------------------------
(* channel.ts: sendTextWithReply and sendPostWithReply, call by call       *)

\* the call of the client API a send starts with (lines 221, 240): the reply
\* API when there is a message to reply to, otherwise the create API
firstCall(item) ==
    IF item.kind = "media" THEN "media"
    ELSE IF item.replyTo # None THEN "reply" ELSE "create"

\* variant: the create API is called after the reply API whatever its result
afterCall_always(stage, ok) ==
    IF stage = "reply" THEN "create" ELSE "return"

\* what follows a call of the client API that resolved with result.ok = ok
\* (lines 223-227, 243-246): the create API after a failed reply, else return
afterCall(stage, ok) ==
    IF stage = "reply" /\ ~ok THEN "create" ELSE "return"

\* the record of a call of the client API, before and after it resolves
Attempt(item, stage, c) ==
    [call |-> c, type |-> item.kind, api |-> stage, body |-> item.body,
     replyTo |-> IF stage = "reply" THEN item.replyTo ELSE None, ok |-> "pending"]

\* arguments of rawDeliver: joined and trimmed text, media, anchor, dmReplied
SendInputs ==
    [text : {<<>>, <<"a">>, <<"fence">>}, mediaUrls : {<<>>, <<"u">>},
     replyToId : ReplyIds, replied : BOOLEAN]

\* number of rawDeliver calls so far
SendCalls == Cardinality({attempts[k].call : k \in 1 .. Len(attempts)})

\* rawDeliver is called (line 749) and awaits its first API call
RawDeliverCall(in) ==
    /\ api.pc = "idle"
    /\ LET queue == rawDeliver(in.replied, in.text, in.mediaUrls, in.replyToId)
       IN  /\ queue # <<>>
           /\ api' = [pc |-> "calling", queue |-> queue, stage |-> firstCall(queue[1])]
           /\ attempts' = Append(attempts,
                                 Attempt(queue[1], firstCall(queue[1]), SendCalls + 1))
    /\ UNCHANGED <<inboundVars, forwardVars, bufferVars, groupVars, ackVars, logVars>>

\* the awaited call of the client API resolves with result.ok = ok; the send
\* goes on with its fallback, or returns and rawDeliver goes on (lines 755-775)
ApiDone(ok) ==
    /\ api.pc = "calling"
    /\ LET head == api.queue[1]
           rest == Tail(api.queue)
           c == attempts[Len(attempts)].call
           logged == [attempts EXCEPT ![Len(attempts)].ok = IF ok THEN "ok" ELSE "failed"]
           next == afterCall(api.stage, ok)
           queue == IF next = "return" /\ head.kind = "post" /\ ~ok
                    THEN <<postFallback(head)>> \o rest
                    ELSE rest
       IN  IF next = "create"
           THEN /\ api' = [api EXCEPT !.stage = "create"]
                /\ attempts' = Append(logged, Attempt(head, "create", c))
           ELSE IF queue # <<>>
           THEN /\ api' = [api EXCEPT !.queue = queue, !.stage = firstCall(queue[1])]
                /\ attempts' = Append(logged, Attempt(queue[1], firstCall(queue[1]), c))
           ELSE /\ api' = ApiIdle
                /\ attempts' = logged
    /\ UNCHANGED <<inboundVars, forwardVars, bufferVars, groupVars, ackVars, logVars>>

\* Up to MaxSendCalls calls of rawDeliver with every argument, the calls of
\* the client API succeeding or failing
InitSend ==
    /\ now = StartTime
    /\ ticks = 0
    /\ processedMessages = [a \in Accounts |-> EmptyCache]
    /\ botOpenIdCache = [a \in Accounts |-> OpenIdOf(a)]
    /\ pendingAcknowledgements = EmptyCache
    /\ calls = <<>>
    /\ effects = {}
    /\ registry = ThreeBots
    /\ script = [b \in Bots |-> <<>>]
    /\ fphase = "idle"
    /\ fstack = <<>>
    /\ forwards = <<>>
    /\ skips = <<>>
    /\ fthrow = FALSE
    /\ rejected = <<>>
    /\ blockTextBuffer = <<>>
    /\ blockMediaBuffer = <<>>
    /\ blockReplyToId = None
    /\ flushTimer = 0
    /\ flushTimers = {}
    /\ bufferStartTime = 0
    /\ dmReplied = FALSE
    /\ dtask = Task("idle")
    /\ tcalls = <<>>
    /\ frags = <<>>
    /\ flushes = <<>>
    /\ sends = <<>>
    /\ opened = 0
    /\ groupReplied = FALSE
    /\ gtask = GroupIdle
    /\ api = ApiIdle
    /\ attempts = <<>>
    /\ ackTimers = {}
    /\ botEntries = RegisteredAtStart
    /\ msgCtxs = <<>>
    /\ ackAccounts = {"A"}
    /\ late = 0

NextSend ==
    \/ \E in \in SendInputs : SendCalls < MaxSendCalls /\ RawDeliverCall(in)
    \/ \E ok \in BOOLEAN : ApiDone(ok)

SpecSend == InitSend /\ [][NextSend]_vars

----------------------------------------------------------------------------
(* Acknowledgement specification                                           *)

\* a group message that mentions nobody: acknowledged, not answered
FreshUnmentionedGroupText ==
    [create_time |-> [kind |-> "num", ms |-> StartTime], chat_type |-> "group",
     mentions |-> <<>>, content |-> <<"hi">>, message_type |-> "text"]

AckPayloads == {FreshDirectText, FreshUnmentionedGroupText}

\* Up to MaxAckCalls deliveries to either account, of a new event or of one
\* delivered before (message ids are numbered in order of first delivery);
\* the acknowledgement and its removal may fail or throw, the reply path may throw, the clean-up timers run on time
InitAck ==
    /\ now = StartTime
    /\ ticks = 0
    /\ processedMessages = [a \in Accounts |-> EmptyCache]
    /\ botOpenIdCache = [a \in Accounts |-> OpenIdOf(a)]
    /\ pendingAcknowledgements = EmptyCache
    /\ calls = <<>>
    /\ effects = {}
    /\ registry = ThreeBots
    /\ script = [b \in Bots |-> <<>>]
    /\ fphase = "idle"
    /\ fstack = <<>>
    /\ forwards = <<>>
    /\ skips = <<>>
    /\ fthrow = FALSE
    /\ rejected = <<>>
    /\ blockTextBuffer = <<>>
    /\ blockMediaBuffer = <<>>
    /\ blockReplyToId = None
    /\ flushTimer = 0
    /\ flushTimers = {}
    /\ bufferStartTime = 0
    /\ dmReplied = FALSE
    /\ dtask = Task("idle")
    /\ tcalls = <<>>
    /\ frags = <<>>
    /\ flushes = <<>>
    /\ sends = <<>>
    /\ opened = 0
    /\ groupReplied = FALSE
    /\ gtask = GroupIdle
    /\ api = ApiIdle
    /\ attempts = <<>>
    /\ ackTimers = {}
    /\ botEntries = RegisteredAtStart
    /\ msgCtxs = <<>>
    /\ ackAccounts = {"A"}
    /\ late = 0

NextAck ==
    \/ \E a \in Accounts, e \in 1 .. Len(calls) + 1, p \in AckPayloads :
          Len(calls) < MaxAckCalls /\ Receive(a, e, p)
    \/ \E i \in 1 .. Len(calls) : TaskStart(i, TRUE)
    \/ \E i \in 1 .. Len(calls), res \in AckResults : TaskAcked(i, res, TRUE)
    \/ \E i \in 1 .. Len(calls) : TaskDispatchDone(i)
    \/ \E i \in 1 .. Len(calls), res \in RemoveResults : TaskRemoved(i, res)
    \/ \E i \in 1 .. Len(calls) : TaskDispatchThrows(i)
    \/ \E t \in ackTimers : AckTimerFires(t)
    \/ WaitForAckTimer

SpecAck == InitAck /\ [][NextAck]_vars

\* the same deliveries with the sends of the dispatch made visible
NextAckSend ==
    \/ \E a \in Accounts, e \in 1 .. Len(calls) + 1, p \in AckPayloads :
          Len(calls) < MaxAckCalls /\ Receive(a, e, p)
    \/ \E i \in 1 .. Len(calls), routeOk \in BOOLEAN : TaskStart(i, routeOk)
    \/ \E i \in 1 .. Len(calls), res \in AckResults, routeOk \in BOOLEAN : TaskAcked(i, res, routeOk)
    \/ \E i \in 1 .. Len(calls) : TaskDeliver(i)
    \/ \E i \in 1 .. Len(calls) : TaskDispatchDone(i)
    \/ \E i \in 1 .. Len(calls), res \in RemoveResults : TaskRemoved(i, res)
    \/ \E i \in 1 .. Len(calls) : TaskDispatchThrows(i)
    \/ \E t \in ackTimers : AckTimerFires(t)
    \/ WaitForAckTimer

SpecAckSend == InitAck /\ [][NextAckSend]_vars

\* the timers of the event loop run: time reaches the next due time and a
\* timer that is due fires
SpecAckFair ==
    SpecAck /\ WF_vars(WaitForAckTimer) /\ WF_vars(\E t \in ackTimers : AckTimerFires(t))

\* the same deliveries when neither account switches the acknowledgement off
InitAckAll ==
    /\ now = StartTime
    /\ ticks = 0
    /\ processedMessages = [a \in Accounts |-> EmptyCache]
    /\ botOpenIdCache = [a \in Accounts |-> OpenIdOf(a)]
    /\ pendingAcknowledgements = EmptyCache
    /\ calls = <<>>
    /\ effects = {}
    /\ registry = ThreeBots
    /\ script = [b \in Bots |-> <<>>]
    /\ fphase = "idle"
    /\ fstack = <<>>
    /\ forwards = <<>>
    /\ skips = <<>>
    /\ fthrow = FALSE
    /\ rejected = <<>>
    /\ blockTextBuffer = <<>>
    /\ blockMediaBuffer = <<>>
    /\ blockReplyToId = None
    /\ flushTimer = 0
    /\ flushTimers = {}
    /\ bufferStartTime = 0
    /\ dmReplied = FALSE
    /\ dtask = Task("idle")
    /\ tcalls = <<>>
    /\ frags = <<>>
    /\ flushes = <<>>
    /\ sends = <<>>
    /\ opened = 0
    /\ groupReplied = FALSE
    /\ gtask = GroupIdle
    /\ api = ApiIdle
    /\ attempts = <<>>
    /\ ackTimers = {}
    /\ botEntries = RegisteredAtStart
    /\ msgCtxs = <<>>
    /\ ackAccounts = Accounts
    /\ late = 0

SpecAckAll == InitAckAll /\ [][NextAck]_vars

\* Deliveries and redeliveries of events of every age, over time
NextInbound ==
    \/ \E d \in {1, MESSAGE_EXPIRE_TTL_MS} : Tick(d)
    \/ \E a \in Accounts, e \in EventIds, p \in DedupPayloads :
          Len(calls) < MaxCalls /\ Receive(a, e, p)
    \/ \E i \in 1 .. Len(calls) : TaskStart(i, TRUE)
    \/ \E i \in 1 .. Len(calls), res \in AckResults : TaskAcked(i, res, TRUE)
    \/ \E i \in 1 .. Len(calls) : TaskDeliver(i)
    \/ \E i \in 1 .. Len(calls) : TaskDispatchDone(i)
    \/ \E i \in 1 .. Len(calls), res \in RemoveResults : TaskRemoved(i, res)
    \/ \E t \in ackTimers : AckTimerFires(t)

Spec == InitInbound /\ [][NextInbound]_vars

\* Redeliveries to an account whose dedup record already holds
\* DEDUPE_CLEANUP_SIZE entries, so that insertions run the cleanup pass
InitEvict ==
    /\ now = StartTime
    /\ ticks = 0
    /\ processedMessages = [a \in Accounts |-> IF a = "A" THEN FullCache ELSE EmptyCache]
    /\ botOpenIdCache = [a \in Accounts |-> OpenIdOf(a)]
    /\ pendingAcknowledgements = EmptyCache
    /\ calls = <<>>
    /\ effects = {}
    /\ registry = ThreeBots
    /\ script = [b \in Bots |-> <<>>]
    /\ fphase = "idle"
    /\ fstack = <<>>
    /\ forwards = <<>>
    /\ skips = <<>>
    /\ fthrow = FALSE
    /\ rejected = <<>>
    /\ blockTextBuffer = <<>>
    /\ blockMediaBuffer = <<>>
    /\ blockReplyToId = None
    /\ flushTimer = 0
    /\ flushTimers = {}
    /\ bufferStartTime = 0
    /\ dmReplied = FALSE
    /\ dtask = Task("idle")
    /\ tcalls = <<>>
    /\ frags = <<>>
    /\ flushes = <<>>
    /\ sends = <<>>
    /\ opened = 0
    /\ groupReplied = FALSE
    /\ gtask = GroupIdle
    /\ api = ApiIdle
    /\ attempts = <<>>
    /\ ackTimers = {}
    /\ botEntries = RegisteredAtStart
    /\ msgCtxs = <<>>
    /\ ackAccounts = {"A"}
    /\ late = 0

NextEvict ==
    \/ \E d \in {1, MESSAGE_DEDUPE_TTL_MS} : Tick(d)
    \/ \E a \in Accounts, e \in EventIds :
          Len(calls) < MaxEvictCalls /\ Receive(a, e, FreshDirectText)
    \/ \E i \in 1 .. Len(calls) : TaskStart(i, TRUE)
    \/ \E i \in 1 .. Len(calls), res \in AckResults : TaskAcked(i, res, TRUE)
    \/ \E i \in 1 .. Len(calls) : TaskDispatchDone(i)
    \/ \E i \in 1 .. Len(calls), res \in RemoveResults : TaskRemoved(i, res)

SpecEvict == InitEvict /\ [][NextEvict]_vars

\* bound of the filter runs: deliveries
MaxFilterCalls == 4

\* The filter alone: the synchronous part of the handler and the clock.
\* Account A starts with DEDUPE_CLEANUP_SIZE entries, so that an insertion
\* runs the clean-up; account B starts empty and receives event 1 only.
InitFilter ==
    /\ now = StartTime
    /\ ticks = 0
    /\ processedMessages = [a \in Accounts |-> IF a = "A" THEN FullCache ELSE EmptyCache]
    /\ botOpenIdCache = [a \in Accounts |-> OpenIdOf(a)]
    /\ pendingAcknowledgements = EmptyCache
    /\ calls = <<>>
    /\ effects = {}
    /\ registry = ThreeBots
    /\ script = [b \in Bots |-> <<>>]
    /\ fphase = "idle"
    /\ fstack = <<>>
    /\ forwards = <<>>
    /\ skips = <<>>
    /\ fthrow = FALSE
    /\ rejected = <<>>
    /\ blockTextBuffer = <<>>
    /\ blockMediaBuffer = <<>>
    /\ blockReplyToId = None
    /\ flushTimer = 0
    /\ flushTimers = {}
    /\ bufferStartTime = 0
    /\ dmReplied = FALSE
    /\ dtask = Task("idle")
    /\ tcalls = <<>>
    /\ frags = <<>>
    /\ flushes = <<>>
    /\ sends = <<>>
    /\ opened = 0
    /\ groupReplied = FALSE
    /\ gtask = GroupIdle
    /\ api = ApiIdle
    /\ attempts = <<>>
    /\ ackTimers = {}
    /\ botEntries = RegisteredAtStart
    /\ msgCtxs = <<>>
    /\ ackAccounts = {"A"}
    /\ late = 0

NextFilter ==
    \/ \E d \in {1, MESSAGE_DEDUPE_TTL_MS} : Tick(d)
    \/ \E a \in Accounts, e \in EventIds :
          /\ Len(calls) < MaxFilterCalls
          /\ a = "B" => e = 1
          /\ Receive(a, e, FreshDirectText)

SpecFilter == InitFilter /\ [][NextFilter]_vars

\* One delivery of an event with every combination of mention fields
InitResolver ==
    /\ now = StartTime
    /\ ticks = 0
    /\ processedMessages = [a \in Accounts |-> EmptyCache]
    /\ botOpenIdCache \in {[a \in Accounts |-> OpenIdOf(a)],
                           [a \in Accounts |-> IF a = "A" THEN OpenIdOf(a) ELSE None]}
    /\ pendingAcknowledgements = EmptyCache
    /\ calls = <<>>
    /\ effects = {}
    /\ registry = ThreeBots
    /\ script = [b \in Bots |-> <<>>]
    /\ fphase = "idle"
    /\ fstack = <<>>
    /\ forwards = <<>>
    /\ skips = <<>>
    /\ fthrow = FALSE
    /\ rejected = <<>>
    /\ blockTextBuffer = <<>>
    /\ blockMediaBuffer = <<>>
    /\ blockReplyToId = None
    /\ flushTimer = 0
    /\ flushTimers = {}
    /\ bufferStartTime = 0
    /\ dmReplied = FALSE
    /\ dtask = Task("idle")
    /\ tcalls = <<>>
    /\ frags = <<>>
    /\ flushes = <<>>
    /\ sends = <<>>
    /\ opened = 0
    /\ groupReplied = FALSE
    /\ gtask = GroupIdle
    /\ api = ApiIdle
    /\ attempts = <<>>
    /\ ackTimers = {}
    /\ botEntries = RegisteredAtStart
    /\ msgCtxs = <<>>
    /\ ackAccounts = {"A"}
    /\ late = 0

NextResolver ==
    \/ \E a \in Accounts, p \in ResolverPayloads : calls = <<>> /\ Receive(a, 1, p)
    \/ \E i \in 1 .. Len(calls) : TaskStart(i, TRUE)
    \/ \E i \in 1 .. Len(calls), ok \in BOOLEAN : TaskTranscribed(i, ok, TRUE)
    \/ \E i \in 1 .. Len(calls), res \in AckResults : TaskAcked(i, res, TRUE)
    \/ \E i \in 1 .. Len(calls) : TaskDeliver(i)
    \/ \E i \in 1 .. Len(calls) : TaskDispatchDone(i)
    \/ \E i \in 1 .. Len(calls), res \in RemoveResults : TaskRemoved(i, res)

SpecResolver == InitResolver /\ [][NextResolver]_vars

----------------------------------------------------------------------------
(* gateway.ts: startGateway, the lookup of the bot's own open_id           *)

MaxGatewayCalls == 1

\* outcomes of getBotInfo: an open_id, null, or an exception
BotInfoResults == {"ok", "null", "throw"}

\* startGateway up to the creation of the client (lines 713-724): the cache
\* is set only when getBotInfo returned an open_id
StartGateway(a, res) ==
    /\ botOpenIdCache' = IF res = "ok"
                         THEN [botOpenIdCache EXCEPT ![a] = OpenIdOf(a)]
                         ELSE botOpenIdCache
    /\ UNCHANGED <<now, ticks, processedMessages, pendingAcknowledgements, calls, effects,
                   forwardVars, bufferVars, groupVars, sendVars, ackVars, logVars>>

\* The gateways start and start again, with or without the bot's open_id,
\* before and after the delivery of events with every combination of mention
\* fields
InitGateway ==
    /\ now = StartTime
    /\ ticks = 0
    /\ processedMessages = [a \in Accounts |-> EmptyCache]
    /\ botOpenIdCache = [a \in Accounts |-> None]
    /\ pendingAcknowledgements = EmptyCache
    /\ calls = <<>>
    /\ effects = {}
    /\ registry = ThreeBots
    /\ script = [b \in Bots |-> <<>>]
    /\ fphase = "idle"
    /\ fstack = <<>>
    /\ forwards = <<>>
    /\ skips = <<>>
    /\ fthrow = FALSE
    /\ rejected = <<>>
    /\ blockTextBuffer = <<>>
    /\ blockMediaBuffer = <<>>
    /\ blockReplyToId = None
    /\ flushTimer = 0
    /\ flushTimers = {}
    /\ bufferStartTime = 0
    /\ dmReplied = FALSE
    /\ dtask = Task("idle")
    /\ tcalls = <<>>
    /\ frags = <<>>
    /\ flushes = <<>>
    /\ sends = <<>>
    /\ opened = 0
    /\ groupReplied = FALSE
    /\ gtask = GroupIdle
    /\ api = ApiIdle
    /\ attempts = <<>>
    /\ ackTimers = {}
    /\ botEntries = RegisteredAtStart
    /\ msgCtxs = <<>>
    /\ ackAccounts = {"A"}
    /\ late = 0

NextGateway ==
    \/ \E a \in Accounts, res \in BotInfoResults : StartGateway(a, res)
    \/ \E a \in Accounts, p \in ResolverPayloads :
          Len(calls) < MaxGatewayCalls /\ Receive(a, Len(calls) + 1, p)

SpecGateway == InitGateway /\ [][NextGateway]_vars

----------------------------------------------------------------------------
(* Properties                                                              *)

SamePair(i, j) == calls[i].acct = calls[j].acct /\ calls[i].id = calls[j].id

\* the event passed isDuplicateMessage and isMessageExpired
PassedFilter(c) == c.verdict \in {"accepted", "not_me"}

HasAge(c) == c.payload.create_time.kind = "num"
Age(c) == c.at - c.payload.create_time.ms

EffectsOf(i) == {x \in effects : x.call = i}

\* C1: of the deliveries of one (account, event id), the first passes the
\* filter unless the event is expired, and every one arriving within
\* MESSAGE_DEDUPE_TTL_MS of an earlier one that was not itself a duplicate
\* (so that it was recorded) is rejected.
C1_TwiceWithinTTL ==
    \A j \in 1 .. Len(calls) :
        /\ ( /\ \A i \in 1 .. (j - 1) : ~SamePair(i, j)
             /\ ~(HasAge(calls[j]) /\ Age(calls[j]) > MESSAGE_EXPIRE_TTL_MS) )
           => PassedFilter(calls[j])
        /\ \A i \in 1 .. (j - 1) :
              ( /\ SamePair(i, j)
                /\ calls[i].verdict # "duplicate"
                /\ calls[j].at - calls[i].at <= MESSAGE_DEDUPE_TTL_MS )
              => calls[j].verdict = "duplicate"

C1_Witness ==
    \E i, j \in 1 .. Len(calls) :
        /\ i < j /\ SamePair(i, j)
        /\ calls[i].verdict = "accepted" /\ calls[j].verdict = "duplicate"
        /\ calls[j].at - calls[i].at = MESSAGE_DEDUPE_TTL_MS
        /\ \E k \in (i + 1) .. (j - 1) : calls[k].acct = calls[i].acct /\ ~SamePair(i, k)

\* C2 (as claimed): over one root dispatch no edge is dispatched twice by
\* forwardMentionToBot, whatever fragment or branch the repeat comes from.
C2_EdgeOncePerRootDispatch ==
    \A k, l \in 1 .. Len(forwards) :
        k < l => forwards[k].edge # forwards[l].edge

\* the nesting of the dispatches: frame k was forwarded from frame k-1 over a
\* new edge, so depth and the number of recorded edges both equal k-1
ChainBounded ==
    \A k \in 1 .. Len(fstack) :
        /\ fstack[k].ctx.depth = k - 1
        /\ Cardinality(fstack[k].ctx.visitedEdges) = k - 1
        /\ fstack[k].ctx.depth <= MAX_FORWARD_DEPTH
        /\ k > 1 => Edge(fstack[k - 1].acct, fstack[k].acct) \in
                        fstack[k].ctx.visitedEdges \ fstack[k - 1].ctx.visitedEdges

\* C3: the forwarding caused by one root dispatch terminates, every chain of
\* nested forwards being made of distinct edges and of depth below the ceiling.
C3_ForwardingTerminates == []ChainBounded /\ <>(fphase = "done")

C3_Witness ==
    /\ fphase = "done"
    /\ \E k \in 1 .. Len(forwards) : forwards[k].depth >= 3
    /\ skips # <<>>

EdgesOf(log) == [k \in 1 .. Len(log) |-> log[k].edge]

\* C4: when A's reply mentions B and B's reply mentions A, the root dispatch
\* of A forwards A->B, then B->A, skips the repeated A->B and ends.
C4_PingPongStops ==
    ( /\ fphase = "done"
      /\ script["A"] = << <<"@B">> >>
      /\ script["B"] = << <<"@A">> >> )
    => /\ EdgesOf(forwards) = << Edge("A", "B"), Edge("B", "A") >>
       /\ skips = << [edge |-> Edge("A", "B"), why |-> "edge"] >>

C4_Witness ==
    /\ fphase = "done"
    /\ script["A"] = << <<"@B">> >>
    /\ script["B"] = << <<"@A">> >>
    /\ Len(forwards) = 2
    /\ Len(skips) = 1

\* C5: an event older than MESSAGE_EXPIRE_TTL_MS never passes the inbound
\* filter, whether its id is in the account's dedup record or not.
C5_ExpiredRejected ==
    \A i \in 1 .. Len(calls) :
        (HasAge(calls[i]) /\ Age(calls[i]) > MESSAGE_EXPIRE_TTL_MS)
        => calls[i].verdict \in {"duplicate", "expired"}

C5_Witness ==
    \E i, j \in 1 .. Len(calls) :
        /\ i < j /\ SamePair(i, j)
        /\ Age(calls[i]) = MESSAGE_EXPIRE_TTL_MS + 1 /\ calls[i].verdict = "expired"
        /\ Age(calls[j]) > MESSAGE_EXPIRE_TTL_MS /\ calls[j].verdict = "duplicate"

\* C6 (as claimed): two tasks for the same (event id, account) are never both
\* in the dispatch stage.
C6_NeverTwoInDispatch ==
    \A i, j \in 1 .. Len(calls) :
        (i < j /\ SamePair(i, j))
        => ~(calls[i].pc = "dispatching" /\ calls[j].pc = "dispatching")

\* C6 (amended): a delivery that arrives while a task for the same
\* (event id, account) is still in flight passes the filter only if it
\* arrives more than MESSAGE_DEDUPE_TTL_MS after that task's delivery.
C6_NoConcurrentPassWithinTTL ==
    \A j \in 1 .. Len(calls) :
        \A i \in calls[j].inflight :
            (SamePair(i, j) /\ PassedFilter(calls[j]))
            => calls[j].at - calls[i].at > MESSAGE_DEDUPE_TTL_MS

C6_Witness ==
    \E j \in 1 .. Len(calls) :
        \E i \in calls[j].inflight :
            /\ SamePair(i, j)
            /\ calls[i].pc = "dispatching"
            /\ calls[j].verdict = "duplicate"
            /\ calls[j].at > calls[i].at

\* C7: a delivery rejected as duplicate or expired returns from the handler
\* without any acknowledgement, dispatch or send.
C7_RejectedNoSideEffect ==
    \A i \in 1 .. Len(calls) :
        calls[i].verdict \in {"duplicate", "expired"}
        => calls[i].pc = "returned" /\ EffectsOf(i) = {}

C7_Witness ==
    \E i, j \in 1 .. Len(calls) :
        /\ HasAge(calls[i]) /\ Age(calls[i]) = 2400000
        /\ calls[i].verdict = "expired"
        /\ calls[j].verdict = "accepted"
        /\ Effect(j, "send") \in effects

\* C8: a group event whose first mention is not this bot is rejected and
\* causes nothing, also when a later mention is this bot.
C8_FirstMentionNotSelfRejected ==
    \A i \in 1 .. Len(calls) :
        LET p == calls[i].payload
        IN  ( /\ p.chat_type = "group"
              /\ Len(p.mentions) > 0
              /\ p.mentions[1] # OpenIdOf(calls[i].acct) )
            => /\ calls[i].verdict = "not_me"
               /\ calls[i].pc = "returned"
               /\ EffectsOf(i) = {}

C8_Witness ==
    \E i \in 1 .. Len(calls) :
        LET p == calls[i].payload
        IN  /\ p.chat_type = "group"
            /\ Len(p.mentions) = 2
            /\ p.mentions[1] # OpenIdOf(calls[i].acct)
            /\ p.mentions[2] = OpenIdOf(calls[i].acct)
            /\ botOpenIdCache[calls[i].acct] = OpenIdOf(calls[i].acct)
            /\ calls[i].verdict = "not_me"

\* C9 (as claimed): a group event whose text carries @_all is accepted with
\* wasMentioned = TRUE, whatever its mention list.
C9_AtAllAccepted ==
    \A i \in 1 .. Len(calls) :
        LET p == calls[i].payload
        IN  (p.chat_type = "group" /\ hasAtAll(p))
            => calls[i].verdict = "accepted" /\ calls[i].wasMentioned

\* C10: a group event without mentions and without @_all is accepted with
\* wasMentioned = FALSE and is neither dispatched nor answered.
C10_UnmentionedSilent ==
    \A i \in 1 .. Len(calls) :
        LET p == calls[i].payload
        IN  ( /\ p.chat_type = "group"
              /\ p.mentions = <<>>
              /\ ~Includes(p.content, "@_all") )
            => /\ calls[i].verdict = "accepted"
               /\ ~calls[i].wasMentioned
               /\ calls[i].pc # "dispatching"
               /\ Effect(i, "dispatch") \notin effects
               /\ Effect(i, "send") \notin effects

C10_Witness ==
    \E i \in 1 .. Len(calls) :
        LET p == calls[i].payload
        IN  /\ p.chat_type = "group"
            /\ p.mentions = <<>>
            /\ p.content = <<"hi">>
            /\ p.message_type = "text"
            /\ calls[i].pc = "done"
            /\ Effect(i, "ack") \in effects

\* C11: a direct-chat event that passed the dedup/expiry filter is accepted
\* whatever its mention list and @_all marker, and its task dispatches it
\* once it carries text.
C11_DirectChatNeverGated ==
    \A i \in 1 .. Len(calls) :
        (calls[i].payload.chat_type = "p2p" /\ PassedFilter(calls[i]))
        => /\ calls[i].verdict = "accepted"
           /\ calls[i].pc # "returned"
           /\ (calls[i].hasText /\ calls[i].pc \in {"dispatching", "done"})
                 => Effect(i, "dispatch") \in effects

C11_Witness ==
    \E i \in 1 .. Len(calls) :
        LET p == calls[i].payload
        IN  /\ p.chat_type = "p2p"
            /\ p.mentions = <<"ou_B">> /\ calls[i].acct = "A"
            /\ Includes(p.content, "@_all")
            /\ calls[i].pc = "dispatching"
            /\ Effect(i, "dispatch") \in effects

\* C12: no forward is dispatched from a context of depth MAX_FORWARD_DEPTH
\* or more; the context of the k-th nested dispatch has depth k - 1, one more
\* than its caller's, and never more than MAX_FORWARD_DEPTH, also when the
\* edge of the next hop has not been visited.
C12_DepthCeiling ==
    /\ \A k \in 1 .. Len(fstack) :
          /\ fstack[k].ctx.depth = k - 1
          /\ fstack[k].ctx.depth <= MAX_FORWARD_DEPTH
    /\ \A k \in 1 .. Len(forwards) : forwards[k].depth < MAX_FORWARD_DEPTH

C12_Witness ==
    /\ fphase = "running"
    /\ Top.ctx.depth = MAX_FORWARD_DEPTH
    /\ Top.frag = 1
    /\ Top.targets = <<>>
    /\ LET mentionedBots == detectMentionedBots(script[Top.acct][1], Top.acct)
       IN  /\ mentionedBots # <<>>
           /\ Edge(Top.acct, mentionedBots[1]) \notin Top.ctx.visitedEdges

\* the edges over which the k-th nested dispatch was reached from the root
PathEdges(k) == {Edge(fstack[j - 1].acct, fstack[j].acct) : j \in 2 .. k}

\* C13: the context of every dispatch holds exactly the edges of its own
\* path from the root, so that a mentioned bot is skipped as visited only
\* for an edge of that path, never for an edge recorded in a sibling's subtree.
C13_BranchIsolation ==
    /\ \A k \in 1 .. Len(fstack) :
          fstack[k].ctx = [depth |-> k - 1, visitedEdges |-> PathEdges(k)]
    /\ (fphase = "running" /\ Top.targets # <<>>)
          => LET edge == Edge(Top.acct, Head(Top.targets))
             IN  forwardGuard(Top.ctx, edge) = "edge" <=> edge \in PathEdges(Len(fstack))

C13_Witness ==
    /\ fphase = "done"
    /\ script["A"] = << <<"@B", "@C">> >>
    /\ script["B"] = << <<"@A">> >>
    /\ script["C"] = << <<"hi">> >>
    /\ EdgesOf(forwards) = << Edge("A", "B"), Edge("B", "A"), Edge("A", "C"), Edge("A", "C") >>
    /\ forwards[3].depth = 2
    /\ forwards[4].depth = 0

\* C14 (as claimed): a forward that throws leaves the deliver call it was
\* made from unharmed: no deliver call ends with an exception and no
\* mentioned bot of the same fragment goes without its forward.
C14_ForwardFailureContained ==
    /\ ~fthrow
    /\ \A k \in 1 .. Len(rejected) : rejected[k].dropped = <<>>

\* the buffer handed to a call of flushBlockBuffer held something
HasContent(f) == f.text # <<>> \/ f.media # <<>>

\* the deliver call of the n-th fragment has returned
CallReturned(n) == Len(frags) > n \/ dtask.pc \in {"ready", "end", "done"}

\* the sends of the deliver call of the n-th fragment, whose flush is the k-th
SendsOfCall(k, n) ==
    LET Mine(s) == s.flush = k \/ (s.flush = 0 /\ s.frag = n)
    IN  SelectSeq(sends, Mine)

\* C15 (as claimed): a final or tool fragment that finds blocks buffered
\* causes exactly two sends, the buffered content and then its own.
C15_ExactlyTwoSends ==
    \A k \in 1 .. Len(flushes) :
        (flushes[k].by = "final" /\ HasContent(flushes[k]) /\ CallReturned(flushes[k].n))
        => LET S == SendsOfCall(k, flushes[k].n)
           IN  Len(S) = 2 /\ S[1].flush = k /\ S[2].flush = 0

\* a text without a code fence and no media
PlainText(text, mediaUrls) ==
    text # <<>> /\ ~Includes(text, "fence") /\ mediaUrls = <<>>

\* C15 (amended): a final or tool fragment that finds blocks buffered has the
\* buffered content sent first (its text, then each of its media) and its
\* own content, if any, afterwards in sends of their own; no send carries
\* both; with plain texts on both sides these are exactly two sends.
C15_BufferedThenOwn ==
    \A k \in 1 .. Len(flushes) :
        (flushes[k].by = "final" /\ HasContent(flushes[k]) /\ CallReturned(flushes[k].n))
        => LET f == flushes[k]
               p == frags[f.n].payload
               S == SendsOfCall(k, f.n)
           IN  \E m \in 1 .. Len(S) :
                  /\ \A i \in 1 .. m :
                        /\ S[i].flush = k
                        /\ \/ S[i].body = f.text
                           \/ \E u \in 1 .. Len(f.media) : S[i].body = <<f.media[u]>>
                  /\ \A i \in (m + 1) .. Len(S) :
                        /\ S[i].flush = 0
                        /\ \/ S[i].body = Pieces(p.text)
                           \/ \E u \in 1 .. Len(p.mediaUrls) : S[i].body = <<p.mediaUrls[u]>>
                  /\ (m < Len(S)) <=> (Pieces(p.text) # <<>> \/ p.mediaUrls # <<>>)
                  /\ (PlainText(f.text, f.media) /\ PlainText(Pieces(p.text), p.mediaUrls))
                        => (m = 1 /\ Len(S) = 2)

C15_Witness ==
    \E k \in 1 .. Len(flushes) :
        /\ flushes[k].by = "final"
        /\ Len(flushes[k].text) = 2
        /\ frags[flushes[k].n].payload.kind = "tool"
        /\ CallReturned(flushes[k].n)
        /\ Len(SendsOfCall(k, flushes[k].n)) = 2

\* C16: as long as only blocks arrive and the dispatch runs, a send is made
\* either by the timer, FLUSH_DELAY_MS or more after the latest block, or by
\* a block that finds the buffer MAX_BUFFER_MS old or older.
C16_NoEarlyFlush ==
    /\ \A k \in 1 .. Len(flushes) :
          /\ flushes[k].by \in {"timer", "cap", "end"}
          /\ flushes[k].by = "timer"
                => flushes[k].at - frags[flushes[k].n].at >= FLUSH_DELAY_MS
          /\ flushes[k].by = "cap" => flushes[k].age >= MAX_BUFFER_MS
    /\ \A i \in 1 .. Len(sends) : sends[i].flush \in 1 .. Len(flushes)
    /\ (dtask.pc = "ready" /\ frags # <<>> /\ now - frags[Len(frags)].at < FLUSH_DELAY_MS
          /\ bufferStartTime # 0)
          => Len(blockTextBuffer) >= 1

C16_Witness ==
    /\ Len(flushes) = 2
    /\ flushes[1].by = "cap" /\ Len(flushes[1].text) = 5
    /\ flushes[2].by = "timer" /\ Len(flushes[2].text) = 1
    /\ Len(sends) = 2
    /\ dtask.pc = "ready"

\* C17 (as claimed): content is never in the buffer more than MAX_BUFFER_MS
\* after bufferStartTime.
C17_NeverHeldBeyondCap ==
    (blockTextBuffer # <<>> \/ blockMediaBuffer # <<>>)
    => now - bufferStartTime <= MAX_BUFFER_MS

\* C18 (as claimed): the anchor handed to the send of a flush is the
\* replyToId of the fragment that opened the buffer.
C18_AnchorOfOpeningBlock ==
    \A k \in 1 .. Len(flushes) :
        (HasContent(flushes[k]) /\ flushes[k].first # 0)
        => flushes[k].replyId = frags[flushes[k].first].payload.replyToId

\* C19 (as claimed): every send of the dispatch after the first is made
\* without a reply target.
C19_OnlyFirstSendAnchored ==
    \A i \in 2 .. Len(sends) : sends[i].replyTo = None

\* no block arrived after the k-th call of flushBlockBuffer and up to the next
NoBlockBetween(k) ==
    \A n \in (flushes[k].n + 1) .. flushes[k + 1].n : frags[n].payload.kind # "block"

\* C20: a call of flushBlockBuffer that finds no text and no media makes no
\* send, and so does a call that follows another with no block in between.
C20_FlushIdempotent ==
    /\ \A k \in 1 .. Len(flushes) :
          ~HasContent(flushes[k]) => \A i \in 1 .. Len(sends) : sends[i].flush # k
    /\ \A k \in 1 .. (Len(flushes) - 1) :
          NoBlockBetween(k)
          => /\ ~HasContent(flushes[k + 1])
             /\ \A i \in 1 .. Len(sends) : sends[i].flush # k + 1

C20_Witness ==
    /\ Len(flushes) >= 3
    /\ flushes[1].by = "timer" /\ ~HasContent(flushes[1])
    /\ frags[1].payload.text = " "
    /\ flushes[2].by = "final" /\ HasContent(flushes[2])
    /\ flushes[3].by = "end"
    /\ dtask.pc = "done"
    /\ \E i \in 1 .. Len(sends) : sends[i].flush = 2

\* the sends made for the n-th fragment
SendsOfFragment(n) == SelectSeq(sends, LAMBDA x : x.frag = n)

\* the text of a payload as the group deliver function sends it
SendTextOf(p, selfAccountId) ==
    LET mentionedBots == detectMentionedBots(p.text, selfAccountId)
    IN  IF Len(mentionedBots) > 0 THEN replaceWithFeishuMentions(p.text, mentionedBots)
        ELSE p.text

\* C21: in a group dispatch nothing is buffered and no timer is armed; a
\* fragment (block, final or tool) with text or media has its first send
\* issued on arrival, its sends carry its own text and its own media only,
\* each of its media is sent before its deliver call returns, and the sends
\* of a fragment precede those of the fragments after it.
C21_GroupNeverBuffers ==
    /\ flushTimer = 0 /\ bufferStartTime = 0 /\ flushes = <<>>
    /\ blockTextBuffer = <<>> /\ blockMediaBuffer = <<>>
    /\ \A n \in 1 .. Len(frags) :
          LET q == frags[n].payload
              S == SendsOfFragment(n)
          IN  /\ (q.text # <<>> \/ q.mediaUrls # <<>>) => S # <<>>
              /\ TrimTokens(q.text) # <<>>
                    => S[1].kind \in {"text", "post"} /\ S[1].body = SendTextOf(q, "A")
              /\ (n < Len(frags) \/ gtask.pc = "idle")
                    => \A u \in 1 .. Len(q.mediaUrls) :
                          \E i \in 1 .. Len(S) :
                             S[i].kind = "media" /\ S[i].body = <<q.mediaUrls[u]>>
              /\ \A i \in 1 .. Len(S) :
                    \/ S[i].kind \in {"text", "post"} /\ S[i].body = SendTextOf(q, "A")
                    \/ S[i].kind = "media"
                          /\ \E u \in 1 .. Len(q.mediaUrls) : S[i].body = <<q.mediaUrls[u]>>
    /\ \A i, j \in 1 .. Len(sends) : i < j => sends[i].frag <= sends[j].frag

C21_Witness ==
    /\ fphase = "done"
    /\ Len(frags) = 3
    /\ frags[1].payload.kind = "block" /\ frags[1].payload.text = <<"a">>
    /\ frags[2].payload.kind = "block" /\ frags[2].payload.mediaUrls = <<"u">>
    /\ frags[3].payload.text = <<"hi", "@B">>
    /\ Len(SendsOfFragment(1)) = 1
    /\ Len(SendsOfFragment(2)) = 1
    /\ SendsOfFragment(3) = <<Sent([kind |-> "text", body |-> <<"hi", "<at user_id=\"ou_B\">B</at>">>,
                                     replyTo |-> None], 0, 3)>>
    /\ EdgesOf(forwards) = <<Edge("A", "B"), Edge("B", "C")>>

\* the calls of the client API made for the text of the c-th rawDeliver call
TextAttempts(c) ==
    SelectSeq(attempts, LAMBDA x : x.call = c /\ x.type \in {"text", "post"})

\* C22: of the API calls made for one text, each is made only after the one
\* before it resolved as failed, so at most one succeeds; the reply API is
\* tried before the create API and the post before the plain text, and
\* after a post that succeeded no plain text is sent.
C22_FallbackOnlyAfterFailure ==
    \A c \in 1 .. SendCalls :
        LET T == TextAttempts(c)
        IN  /\ \A i, j \in 1 .. Len(T) : i < j => T[i].ok = "failed"
            /\ Cardinality({i \in 1 .. Len(T) : T[i].ok = "ok"}) <= 1
            /\ \A i \in 1 .. (Len(T) - 1) :
                  \/ T[i].type = T[i + 1].type /\ T[i].api = "reply" /\ T[i + 1].api = "create"
                  \/ T[i].type = "post" /\ T[i + 1].type = "text" /\ T[i].api = "create"
            /\ (\E i \in 1 .. Len(T) : T[i].type = "post" /\ T[i].ok = "ok")
                  => \A i \in 1 .. Len(T) : T[i].type = "post"

C22_Witness ==
    /\ api.pc = "idle"
    /\ Len(TextAttempts(1)) = 4
    /\ TextAttempts(1)[1].type = "post" /\ TextAttempts(1)[1].api = "reply"
    /\ TextAttempts(1)[2].type = "post" /\ TextAttempts(1)[2].api = "create"
    /\ TextAttempts(1)[3].type = "text" /\ TextAttempts(1)[3].api = "reply"
    /\ TextAttempts(1)[3].replyTo = "r1"
    /\ TextAttempts(1)[4].type = "text" /\ TextAttempts(1)[4].ok = "ok"
    /\ Len(TextAttempts(2)) = 1
    /\ TextAttempts(2)[1].type = "post" /\ TextAttempts(2)[1].ok = "ok"

\* the calls of account a for message m whose addReaction succeeded with a
\* reaction id
AckedBy(m, a) ==
    {i \in 1 .. Len(calls) :
        /\ calls[i].id = m /\ calls[i].acct = a
        /\ Effect(i, "marked") \in effects}

\* C23: an entry of pendingAcknowledgements belongs to a call whose
\* addReaction succeeded with a reaction id (not to one that failed, threw
\* or returned no id), and a clean-up timer that is not overdue is armed
\* for it; every entry is removed in the end, whether the dispatch
\* completes, throws or never ends.
C23_AckLifecycle ==
    /\ [](\A m \in DOMAIN pendingAcknowledgements :
             /\ AckedBy(m, pendingAcknowledgements[m]) # {}
             /\ \E t \in ackTimers : t.id = m /\ now <= t.due)
    /\ \A m \in 1 .. MaxAckCalls :
          (m \in DOMAIN pendingAcknowledgements) ~> (m \notin DOMAIN pendingAcknowledgements)

\* two acknowledged messages: the dispatch of one threw and its entry was
\* deleted by its timer after 5 minutes, the entry of the other was deleted
\* when its dispatch completed and its timer is still to run
C23_Witness ==
    \E i, j \in 1 .. Len(calls) :
        /\ calls[i].pc = "rejected"
        /\ Effect(i, "marked") \in effects /\ Effect(i, "dispatch") \in effects
        /\ calls[j].pc = "done"
        /\ Effect(j, "marked") \in effects /\ Effect(j, "remove") \in effects
        /\ calls[i].id # calls[j].id
        /\ now = StartTime + ACK_CLEANUP_MS
        /\ calls[i].id \notin DOMAIN pendingAcknowledgements
        /\ calls[j].id \notin DOMAIN pendingAcknowledgements
        /\ ackTimers = {[id |-> calls[j].id, due |-> now, handle |-> j]}

\* C24: a failing acknowledgement never blocks the reply path. Whatever
\* addReaction returned or threw, a task that has left the acknowledgement
\* has entered onMessage (it dispatches unless onMessage itself drops the
\* message or rejects when the route is resolved); whatever removeReaction
\* returned or threw, the task ends normally; and no step takes back a send
\* that was issued.
C24_AckNeverBlocks ==
    /\ [](\A i \in 1 .. Len(calls) :
            /\ calls[i].pc # "failed"
            /\ (Effect(i, "ack") \in effects /\ calls[i].pc # "acking")
                  => \/ onMessageSuppressed(calls[i])
                     \/ Effect(i, "dispatch") \in effects
                     \/ calls[i].pc = "rejected")
    /\ [][/\ effects \subseteq effects'
          /\ \A i \in 1 .. Len(calls) :
                calls[i].pc = "removing" => calls'[i].pc \in {"removing", "done"}]_vars

\* at the start time one finished task has sent although no timer was armed
\* for its message (its addReaction failed or threw), and another finished
\* task has sent and its entry is still in the map (its removeReaction threw)
C24_Witness ==
    \E i, j \in 1 .. Len(calls) :
        /\ calls[i].id # calls[j].id
        /\ Effect(i, "ack") \in effects /\ Effect(i, "send") \in effects
        /\ calls[i].pc = "done"
        /\ \A t \in ackTimers : t.id # calls[i].id
        /\ now = StartTime
        /\ Effect(j, "ack") \in effects /\ Effect(j, "send") \in effects
        /\ calls[j].pc = "done"
        /\ calls[j].id \in DOMAIN pendingAcknowledgements
        /\ pendingAcknowledgements[calls[j].id] = calls[j].acct

\* texts for detectMentionedBots: those of the agents, and texts naming the
\* sender together with others, one name twice, and every bot
C25_Texts ==
    FragmentTexts \cup {<<"@A", "@B">>, <<"@B", "hi", "@B">>, <<"@C", "@B", "@A">>, <<"@Z">>, <<>>}

\* C25: detectMentionedBots(text, selfAccountId) holds exactly the registered
\* bots other than selfAccountId whose "@" + name occurs in the text, each
\* once; no forward is made or skipped for an edge from a bot to itself, and
\* no context holds such an edge.
C25_OutboundDetection ==
    /\ \A text \in C25_Texts, self \in Bots :
          LET r == detectMentionedBots(text, self)
          IN  /\ {r[k] : k \in 1 .. Len(r)} =
                    {b \in Bots : b # self /\ \E n \in 1 .. Len(text) :
                                                text[n] = AtName(botEntries[b].name)}
              /\ \A k, l \in 1 .. Len(r) : r[k] = r[l] => k = l
    /\ \A k \in 1 .. Len(forwards) : forwards[k].edge[1] # forwards[k].edge[2]
    /\ \A k \in 1 .. Len(skips) : skips[k].edge[1] # skips[k].edge[2]
    /\ \A k \in 1 .. Len(fstack) :
          /\ \A e \in fstack[k].ctx.visitedEdges : e[1] # e[2]
          /\ \A n \in 1 .. Len(fstack[k].targets) : fstack[k].targets[n] # fstack[k].acct

\* bot A named B and B was forwarded to; B, reached by that forward, has
\* delivered a fragment naming itself and nothing is forwarded for it
C25_Witness ==
    /\ Len(fstack) = 2
    /\ fstack[1].acct = "A" /\ script["A"][fstack[1].frag] = <<"@B">>
    /\ forwards = << [edge |-> Edge("A", "B"), depth |-> 0] >>
    /\ Top.acct = "B" /\ Top.frag = 1 /\ script["B"][1] = <<"@B">>
    /\ Top.targets = <<>>
    /\ skips = <<>>

\* C26 (as claimed): a delivery rejected as a duplicate or as expired leaves
\* the dedup record as it was.
C26_RecordOnlyOnAcceptance ==
    [][(Len(calls') = Len(calls) + 1
          /\ calls'[Len(calls')].verdict \in {"duplicate", "expired"})
       => processedMessages' = processedMessages]_vars

\* C27: entries leave the record of an account only in a delivery to that
\* account that inserts a new id and makes the record exceed
\* DEDUPE_CLEANUP_SIZE entries, and then exactly the entries recorded more
\* than MESSAGE_DEDUPE_TTL_MS ago leave; an entry that stays keeps its time;
\* an id whose entry is present is rejected; and two deliveries of one
\* (account, id) that both pass the duplicate check are more than
\* MESSAGE_DEDUPE_TTL_MS apart.
C27_EvictionOnlyByCleanup ==
    /\ [][\A a \in Accounts :
            LET old == processedMessages[a]
                new == processedMessages'[a]
                gone == (DOMAIN old) \ (DOMAIN new)
                tooOld == {m \in DOMAIN old : now - old[m] > MESSAGE_DEDUPE_TTL_MS}
                delivered == Len(calls') = Len(calls) + 1 /\ calls'[Len(calls')].acct = a
                inserts == delivered /\ calls'[Len(calls')].id \notin DOMAIN old
                exceeds == Cardinality(DOMAIN old) + 1 > DEDUPE_CLEANUP_SIZE
            IN  /\ \A m \in (DOMAIN old) \cap (DOMAIN new) : new[m] = old[m]
                /\ gone # {} => inserts /\ exceeds
                /\ (inserts /\ exceeds) => gone = tooOld
                /\ (delivered /\ ~inserts) => calls'[Len(calls')].verdict = "duplicate"
         ]_vars
    /\ [](\A i, j \in 1 .. Len(calls) :
            (i < j /\ SamePair(i, j)
               /\ calls[i].verdict # "duplicate" /\ calls[j].verdict # "duplicate")
            => calls[j].at - calls[i].at > MESSAGE_DEDUPE_TTL_MS)

\* event 1 is accepted by account A, rejected when its entry is older than
\* the TTL but still present, evicted by the insertion of event 2, and then
\* accepted again
C27_Witness ==
    /\ Len(calls) = 4
    /\ \A k \in 1 .. 4 : calls[k].acct = "A"
    /\ calls[1].id = 1 /\ calls[1].verdict = "accepted" /\ calls[1].at = StartTime
    /\ calls[2].id = 1 /\ calls[2].verdict = "duplicate"
    /\ calls[2].at = StartTime + MESSAGE_DEDUPE_TTL_MS + 1
    /\ calls[3].id = 2 /\ calls[3].verdict = "accepted"
    /\ calls[4].id = 1 /\ calls[4].verdict = "accepted"
    /\ DOMAIN processedMessages["A"] = {1, 2}

RECURSIVE ConcatAll(_)
\* the sequences of a sequence, joined in order
ConcatAll(ss) == IF ss = <<>> THEN <<>> ELSE Head(ss) \o ConcatAll(Tail(ss))

\* the partial-block fragments delivered so far
BlockFrags == SelectSeq(frags, LAMBDA f : f.payload.kind = "block")

\* their texts and their media, in arrival order
BlockTexts == ConcatAll([k \in 1 .. Len(BlockFrags) |-> Pieces(BlockFrags[k].payload.text)])
BlockMedia == ConcatAll([k \in 1 .. Len(BlockFrags) |-> BlockFrags[k].payload.mediaUrls])

\* what the calls of flushBlockBuffer so far took out of the buffer
FlushedTexts == ConcatAll([k \in 1 .. Len(flushes) |-> flushes[k].text])
FlushedMedia == ConcatAll([k \in 1 .. Len(flushes) |-> flushes[k].media])

\* the text sends (post or text) and the media sends made for the k-th flush
TextSendsOf(k) == SelectSeq(sends, LAMBDA x : x.flush = k /\ x.kind \in {"text", "post"})
MediaSendsOf(k) == SelectSeq(sends, LAMBDA x : x.flush = k /\ x.kind = "media")

\* the text of the k-th flush goes out in one text send, or in a post send
\* that failed followed by its text send
OneTextSend(k) ==
    LET T == TextSendsOf(k)
    IN  IF flushes[k].text = <<>> THEN T = <<>>
        ELSE /\ Len(T) \in {1, 2}
             /\ \A i \in 1 .. Len(T) : T[i].body = flushes[k].text
             /\ Len(T) = 2 => T[1].kind = "post" /\ T[2].kind = "text"

\* no send is in flight and the dispatch has ended
Quiescent == dtask.pc = "done" /\ tcalls = <<>>

\* what the step took out of the buffer by a flush, and what it brought by a block
TakenText == IF Len(flushes') > Len(flushes) THEN flushes'[Len(flushes')].text ELSE <<>>
TakenMedia == IF Len(flushes') > Len(flushes) THEN flushes'[Len(flushes')].media ELSE <<>>
BroughtText ==
    IF Len(frags') > Len(frags) /\ frags'[Len(frags')].payload.kind = "block"
    THEN Pieces(frags'[Len(frags')].payload.text) ELSE <<>>
BroughtMedia ==
    IF Len(frags') > Len(frags) /\ frags'[Len(frags')].payload.kind = "block"
    THEN frags'[Len(frags')].payload.mediaUrls ELSE <<>>

\* C28: a buffer that holds text or media has bufferStartTime set; a call of
\* flushBlockBuffer leaves text, media, anchor, bufferStartTime and the timer
\* handle cleared in the step it is made in, with its first send issued in
\* that step; in every step, also one made while a send is awaited, what a
\* flush takes out followed by what the buffer keeps is what the buffer held
\* followed by what a block brings, so no block is lost or taken twice;
\* each flush with text has one text send, and at the end each of its
\* media one send.
C28_BufferState ==
    /\ []((blockTextBuffer # <<>> \/ blockMediaBuffer # <<>>) => bufferStartTime # 0)
    /\ [][Len(flushes') > Len(flushes)
            => /\ blockTextBuffer' = <<>> /\ blockMediaBuffer' = <<>>
               /\ blockReplyToId' = None /\ bufferStartTime' = 0 /\ flushTimer' = 0
               /\ HasContent(flushes'[Len(flushes')])
                     => /\ Len(sends') = Len(sends) + 1
                        /\ sends'[Len(sends')].flush = Len(flushes')]_vars
    /\ [][/\ TakenText \o blockTextBuffer' = blockTextBuffer \o BroughtText
          /\ TakenMedia \o blockMediaBuffer' = blockMediaBuffer \o BroughtMedia]_vars
    /\ [](\A k \in 1 .. Len(flushes) :
                /\ OneTextSend(k)
                /\ Len(MediaSendsOf(k)) <= Len(flushes[k].media)
                /\ Quiescent => Len(MediaSendsOf(k)) = Len(flushes[k].media))

\* the send of a timer flush is awaited when the next block arrives: the
\* block is in the new buffer, which has its start time and its timer
C28_Witness ==
    /\ Len(flushes) = 1 /\ flushes[1].by = "timer" /\ flushes[1].text = <<"a">>
    /\ Len(tcalls) = 1
    /\ Len(frags) = 2 /\ frags[2].payload.kind = "block" /\ frags[2].payload.mediaUrls = <<"u">>
    /\ blockTextBuffer = <<>> /\ blockMediaBuffer = <<"u">>
    /\ bufferStartTime = frags[2].at
    /\ flushTimer # 0

\* C29: at most one callback of the buffer is pending, the one flushTimer
\* refers to; a call of flushBlockBuffer (by the timer, at the ceiling, for
\* a final or tool fragment, at the end of the dispatch) leaves none
\* pending and the buffer empty; the callback that runs is the one
\* flushTimer refers to, so a timer that was cleared causes no flush and no
\* send; after the flush that ends the dispatch the buffer is empty and no
\* callback is pending.
C29_FlushTimer ==
    /\ [](/\ Cardinality(flushTimers) <= 1
          /\ flushTimers = (IF flushTimer = 0 THEN {} ELSE {flushTimer}))
    /\ [][Len(flushes') > Len(flushes)
            => /\ flushes'[Len(flushes')].by \in {"timer", "cap", "final", "end"}
               /\ flushTimers' = {} /\ flushTimer' = 0
               /\ blockTextBuffer' = <<>> /\ blockMediaBuffer' = <<>>
               /\ flushes'[Len(flushes')].by = "timer"
                     => /\ flushTimer # 0 /\ now >= flushTimer
                        /\ frags[Len(frags)].payload.kind = "block"
                        /\ flushTimer = frags[Len(frags)].at + FLUSH_DELAY_MS]_vars
    /\ [](dtask.pc \in {"end", "done"}
            => /\ blockTextBuffer = <<>> /\ blockMediaBuffer = <<>>
               /\ flushTimers = {} /\ flushTimer = 0 /\ bufferStartTime = 0)

\* a final fragment arrived 1 ms before the timer of the first block was
\* due: its flush cleared the timer and sent the block, the due time passed
\* without a flush, and the timer of the block that followed made the next
\* flush 2000 ms after that block; the end of the dispatch found nothing
C29_Witness ==
    /\ Len(frags) = 3
    /\ frags[1].payload.kind = "block" /\ frags[2].payload.kind = "final"
    /\ frags[3].payload.kind = "block"
    /\ frags[2].at = frags[1].at + FLUSH_DELAY_MS - 1 /\ frags[3].at = frags[2].at
    /\ Len(flushes) = 3
    /\ flushes[1].by = "final" /\ flushes[1].at = frags[2].at /\ flushes[1].text = <<"a">>
    /\ flushes[2].by = "timer" /\ flushes[2].at = frags[3].at + FLUSH_DELAY_MS
    /\ flushes[3].by = "end" /\ ~HasContent(flushes[3])
    /\ Len(sends) = 3
    /\ Quiescent

\* C30: what the flushes took out followed by what the buffer holds is what
\* the blocks brought, texts and media, in arrival order, so every block is
\* in exactly one flush; each flush with text has exactly one text send,
\* carrying its text, and these sends are issued in flush order; at the end
\* the texts of the text sends, in the order of the sends, are the texts of
\* the blocks in arrival order, and the media sends of each flush are its
\* media, each once and in order; a block and the block arriving less than
\* FLUSH_DELAY_MS after it are in one flush unless the first reached the
\* ceiling, and always so if the first opened the buffer.
C30_Coalescing ==
    /\ FlushedTexts \o blockTextBuffer = BlockTexts
    /\ FlushedMedia \o blockMediaBuffer = BlockMedia
    /\ \A k \in 1 .. Len(flushes) :
          /\ Len(TextSendsOf(k)) = (IF flushes[k].text = <<>> THEN 0 ELSE 1)
          /\ \A i \in 1 .. Len(TextSendsOf(k)) : TextSendsOf(k)[i].body = flushes[k].text
          /\ Len(MediaSendsOf(k)) <= Len(flushes[k].media)
    /\ \A i \in 1 .. Len(sends) : sends[i].flush \in 1 .. Len(flushes)
    /\ \A i, j \in 1 .. Len(sends) :
          (i < j /\ sends[i].kind = "text" /\ sends[j].kind = "text")
          => sends[i].flush < sends[j].flush
    /\ Quiescent
          => LET T == SelectSeq(sends, LAMBDA x : x.kind = "text")
             IN  /\ ConcatAll([i \in 1 .. Len(T) |-> T[i].body]) = BlockTexts
                 /\ \A k \in 1 .. Len(flushes) :
                       ConcatAll([i \in 1 .. Len(MediaSendsOf(k)) |->
                                     MediaSendsOf(k)[i].body]) = flushes[k].media
    /\ \A n \in 1 .. (Len(frags) - 1) :
          frags[n + 1].at - frags[n].at < FLUSH_DELAY_MS
          => /\ \A k \in 1 .. Len(flushes) : flushes[k].n = n => flushes[k].by = "cap"
             /\ \A k \in 1 .. Len(flushes) : flushes[k].first = n => flushes[k].n >= n + 1

\* the text blocks "a" and "b" BlockGap ms apart and nothing else: the timer
\* of the second makes the one flush, whose one send carries "a" then "b"
C30_Witness ==
    /\ Len(frags) = 2
    /\ frags[1].payload.text = "a" /\ frags[2].payload.text = "b"
    /\ frags[2].at - frags[1].at = BlockGap
    /\ Len(flushes) = 2 /\ flushes[1].by = "timer" /\ flushes[2].by = "end"
    /\ Len(sends) = 1 /\ sends[1].body = <<"a", "b">>
    /\ Quiescent

\* C31 (as claimed): an entry of the registry keeps its name and its openId
\* and is never removed, whatever registerBot calls follow.
C31_EntryImmutable ==
    [][\A a \in DOMAIN botEntries :
          a \in DOMAIN botEntries' /\ botEntries'[a] = botEntries[a]]_vars

\* C32: with timers that run on time, a buffer that holds text or media was
\* opened less than FLUSH_DELAY_MS + MAX_BUFFER_MS ago and has a timer
\* pending, and every such buffer is emptied later on.
C32_LatencyBound ==
    /\ []((blockTextBuffer # <<>> \/ blockMediaBuffer # <<>>)
            => /\ now - bufferStartTime < FLUSH_DELAY_MS + MAX_BUFFER_MS
               /\ flushTimer # 0 /\ flushTimer \in flushTimers
               /\ flushTimer - bufferStartTime < FLUSH_DELAY_MS + MAX_BUFFER_MS)
    /\ (blockTextBuffer # <<>> \/ blockMediaBuffer # <<>>)
          ~> (blockTextBuffer = <<>> /\ blockMediaBuffer = <<>>)

\* blocks at 0, 2000, 4000, 6000 and 7999 ms: the last re-armed the timer,
\* which was due 9999 ms after the buffer was opened and has made the flush
C32_Witness ==
    /\ Len(frags) = 5
    /\ frags[5].at - frags[1].at = MAX_BUFFER_MS - 1
    /\ Len(flushes) = 1 /\ flushes[1].by = "timer"
    /\ flushes[1].age = FLUSH_DELAY_MS + MAX_BUFFER_MS - 1
    /\ Len(flushes[1].text) = 5
    /\ blockTextBuffer = <<>>

\* C33: within one direct-chat dispatch, rawDeliver is never entered while
\* another rawDeliver call of the dispatch awaits a send: the calls started by
\* the flush timer and the call of the current fragment are never in flight
\* together
C33_SendsSerialized ==
    Len(tcalls) + (IF dtask.queue # <<>> THEN 1 ELSE 0) <= 1

\* C34: a pending acknowledgement is overwritten or deleted only by the
\* handler of the account that placed it: a step of the handler of a delivery
\* that changes or removes the entry of its message finds there its own account
C34_AckOwnership ==
    [][\A i \in 1 .. Len(calls) :
          LET m == calls[i].id
          IN  /\ calls'[i].pc # calls[i].pc
              /\ m \in DOMAIN pendingAcknowledgements
              /\ \/ m \notin DOMAIN pendingAcknowledgements'
                 \/ pendingAcknowledgements'[m] # pendingAcknowledgements[m]
              => pendingAcknowledgements[m] = calls[i].acct]_vars

\* C35: for every accepted delivery on which the receipt marker was placed
\* and whose onMessage returns without error, a removeReaction request for
\* the marker is eventually issued
C35_MarkerRemoved ==
    \A i \in 1 .. MaxAckCalls :
        (/\ i <= Len(calls)
         /\ Effect(i, "marked") \in effects
         /\ calls[i].pc = "done") ~> (Effect(i, "remove") \in effects)

\* C36: in the context of every dispatch reachable from a root dispatch the
\* depth is the number of visited edges, and the visited edges are the hops,
\* all distinct, of the chain from the root to that dispatch; a context at
\* the depth ceiling therefore holds MAX_FORWARD_DEPTH edges
C36_DepthCountsEdges ==
    \A k \in 1 .. Len(fstack) :
        LET ctx == fstack[k].ctx
            hops == [j \in 1 .. (k - 1) |-> Edge(fstack[j].acct, fstack[j + 1].acct)]
        IN  /\ ctx.depth = Cardinality(ctx.visitedEdges)
            /\ ctx.visitedEdges = {hops[j] : j \in 1 .. (k - 1)}
            /\ \A i, j \in 1 .. (k - 1) : hops[i] = hops[j] => i = j
            /\ ctx.depth >= MAX_FORWARD_DEPTH
                  => Cardinality(ctx.visitedEdges) = MAX_FORWARD_DEPTH

\* a dispatch at the depth ceiling, reached over MAX_FORWARD_DEPTH edges
C36_Witness ==
    /\ Len(fstack) = MAX_FORWARD_DEPTH + 1
    /\ fstack[1].ctx = [depth |-> 0, visitedEdges |-> {}]
    /\ Top.ctx.depth = MAX_FORWARD_DEPTH
    /\ Cardinality(Top.ctx.visitedEdges) = MAX_FORWARD_DEPTH
    /\ Edge(fstack[MAX_FORWARD_DEPTH].acct, Top.acct) \in Top.ctx.visitedEdges

\* the contexts built by forwardMentionToBot and by onMessage, in the order
\* they were built
ForwardCtxs == SelectSeq(msgCtxs, LAMBDA x : x.by = "forwardMentionToBot")
RootCtxs == SelectSeq(msgCtxs, LAMBDA x : x.by = "onMessage")

\* every forward built one context, a group context for the chat of the
\* root dispatch, addressed to the account of the target bot, with
\* WasMentioned true and CommandAuthorized false; a context with
\* CommandAuthorized true was built by onMessage, at depth 0, for an event
\* of one of the given kinds
ContextsBuiltFor(events) ==
    /\ Len(ForwardCtxs) = Len(forwards)
    /\ Len(RootCtxs) = (IF fphase = "idle" THEN 0 ELSE 1)
    /\ \A k \in 1 .. Len(ForwardCtxs) :
          /\ ForwardCtxs[k].ctx.ChatType = "group"
          /\ ForwardCtxs[k].ctx.To = RootCtxs[1].ctx.To
          /\ ForwardCtxs[k].ctx.WasMentioned
          /\ ~ForwardCtxs[k].ctx.CommandAuthorized
          /\ ForwardCtxs[k].depth = forwards[k].depth + 1
          /\ ForwardCtxs[k].ctx.AccountId = forwards[k].edge[2]
          /\ ForwardCtxs[k].sender = forwards[k].edge[1]
    /\ \A k \in 1 .. Len(msgCtxs) :
          msgCtxs[k].ctx.CommandAuthorized
          => /\ msgCtxs[k].by = "onMessage" /\ msgCtxs[k].depth = 0
             /\ msgCtxs[k].event \in events
    /\ \A k \in 1 .. Len(fstack) : fstack[k].chatId = RootCtxs[1].ctx.To

\* C37 (as claimed): every context built by forwardMentionToBot is a group
\* context for the chat of the root dispatch, addressed to the account of
\* the target bot, with WasMentioned true and CommandAuthorized false; a
\* context with CommandAuthorized true is built by onMessage at depth 0 for
\* a message event of the platform, and for nothing else.
C37_ForwardedContext == ContextsBuiltFor({"im.message.receive_v1"})

\* C37 (amended): the same of the forwarded contexts; a context with
\* CommandAuthorized true is built by onMessage at depth 0 for an event of
\* the platform, a message event or a card button action, never by a
\* forward at any depth and never by the HTTP card callback handler.
C37_FromPlatformEvents ==
    ContextsBuiltFor({"im.message.receive_v1", "card.action.trigger"})

\* a button pressed on a card in the second chat, a group chat by the cache,
\* gave a root context with CommandAuthorized true, and the reply was
\* forwarded from bot to bot, three deep, without it; a card callback over
\* HTTP was dispatched without it as well
C37_Witness ==
    /\ fphase = "done"
    /\ RootCtxs[1].event = "card.action.trigger"
    /\ RootCtxs[1].ctx.To = "oc_2" /\ RootCtxs[1].ctx.ChatType = "group"
    /\ RootCtxs[1].ctx.CommandAuthorized
    /\ CardCallbacks = 1
    /\ \E k \in 1 .. Len(ForwardCtxs) :
          /\ ForwardCtxs[k].depth = 3
          /\ ForwardCtxs[k].ctx.To = "oc_2"
          /\ ~ForwardCtxs[k].ctx.CommandAuthorized

\* C38: the filtering of a delivery to account a leaves the dedup record of
\* every other account as it was, and the delivery is a duplicate exactly
\* when the record of a itself holds its id, whatever the other records hold
C38_DedupPerAccount ==
    [][Len(calls') > Len(calls)
          => LET c == calls'[Len(calls')]
             IN  /\ \A b \in Accounts \ {c.acct} :
                       processedMessages'[b] = processedMessages[b]
                 /\ c.verdict = "duplicate" <=> c.id \in DOMAIN processedMessages[c.acct]
                 /\ c.id \in DOMAIN processedMessages'[c.acct]]_vars

\* the same event was delivered to A and then, within the dedup window, to B,
\* and both accepted it; A then rejected its redelivery
C38_Witness ==
    \E i, j, k \in 1 .. Len(calls) :
        /\ i < j /\ j < k
        /\ calls[i].id = calls[j].id /\ calls[j].id = calls[k].id
        /\ calls[i].acct = "A" /\ calls[j].acct = "B" /\ calls[k].acct = "A"
        /\ calls[k].at - calls[i].at < MESSAGE_DEDUPE_TTL_MS
        /\ calls[i].verdict = "accepted"
        /\ calls[j].verdict = "accepted"
        /\ calls[k].verdict = "duplicate"

\* C39: while the open_id of the bot of an account is unknown, a fresh group
\* event delivered to the account is rejected exactly when its mention list
\* is not empty, whoever is mentioned first; direct-chat events and group
\* events without mention list are accepted, the latter as mentioned exactly
\* when the text holds the broadcast mention
C39_UnknownOwnId ==
    [][(Len(calls') > Len(calls) /\ botOpenIdCache[calls'[Len(calls')].acct] = None)
          => LET c == calls'[Len(calls')]
                 p == c.payload
             IN  /\ c.verdict \in {"accepted", "not_me"}
                 /\ c.verdict = "not_me" <=> (p.chat_type = "group" /\ p.mentions # <<>>)
                 /\ c.verdict = "accepted"
                       => (c.wasMentioned <=> (p.chat_type = "group" /\ hasAtAll(p)))]_vars

\* the lookup failed for an account and a group event whose first mention
\* is the bot of that account was rejected
C39_Witness ==
    \E i \in 1 .. Len(calls) :
        /\ botOpenIdCache[calls[i].acct] = None
        /\ calls[i].payload.chat_type = "group"
        /\ calls[i].payload.mentions = <<OpenIdOf(calls[i].acct)>>
        /\ calls[i].verdict = "not_me"


====
